---- MODULE Spec2Model ----
(***************************************************************************)
(* Model of adapter-neofoxx.c, the pic32prog backend for the Neofoxx       *)
(* USB-serial JTAG/ICSP adapter.                                           *)
(*                                                                         *)
(* Eight specifications share the module:                                  *)
(*   SpecPacket  the packet transport at byte level, from the call of      *)
(*               neofoxx_get_capabilities on: add_to_packet, bulk_write,   *)
(*               neofoxx_flush_output and neofoxx_recv, with a transport   *)
(*               that accepts and delivers bytes in arbitrary pieces;      *)
(*   Spec        the protocol layers above it at command level: the        *)
(*               instruction injector, serial_execution, get_pe_response   *)
(*               and the public operations of an open session, against a   *)
(*               target whose replies are chosen nondeterministically.     *)
(*   SpecPure    calculate_crc, neofoxx_bitReversal, neofoxx_setMode,      *)
(*               neofoxx_flush_output and neofoxx_sendCommand as           *)
(*               functions, over bounded sets of inputs;                   *)
(*   SpecLife    adapter_open_neofoxx and neofoxx_close: the life of a     *)
(*               session from its allocation to its release;               *)
(*   SpecErase   neofoxx_erase_chip on an open session;                    *)
(*   SpecSession the open, the operations of Spec and the close together;  *)
(*   SpecErased  neofoxx_erase_chip among read_word, load_executive and    *)
(*               program_word, in any order;                               *)
(*   SpecPins    the operations that drive MCLR: the open, the close,      *)
(*               erase_chip and serial_execution as read_word enters it.   *)
(***************************************************************************)
EXTENDS Integers, Sequences, FiniteSets, TLC

VARIABLES
    \* ---- byte level (SpecPacket) ----
    output,             \* a->output[0 .. fill-1], the transmit buffer
    bytes_to_write,     \* a->bytes_to_write
    bytes_to_read,      \* a->bytes_to_read
    input,              \* a->input[0 .. bytes_in_buffer-1]
    bytes_in_buffer,    \* a->bytes_in_buffer
    current_pos_input,  \* a->current_pos_input
    position,           \* bulk_write's local write position
    ppc,                \* where the transport code stands
    wire,               \* bytes the transport accepted during the last flush
    payload,            \* bytes handed to add_to_packet since the last flush
    io,                 \* the call of the transport made by the last step: which, the count asked, the result
    \* ---- command level (Spec) ----
    interface,          \* a->interface
    family,             \* a->adapter.family_name_short
    way,                \* a->way
    use_executive,      \* a->use_executive
    serial_execution_mode,  \* a->serial_execution_mode
    queue,              \* the commands held in a->output, not yet flushed
    op,                 \* the public operation that is running, or "none"
    args,               \* its arguments
    cont,               \* what the running operation still has to execute
    exited,             \* exit(-1) was called: the process is gone
    counter,            \* serial_execution's local counter
    counterPre,         \* serial_execution's local counterPre
    maxCounter,         \* xferInstruction's local maxCounter
    ret,                \* the value the last read returned (ctl, status, response)
    words_out,          \* words stored through read_data's data pointer
    emit,               \* what the last step did: packets, delays, diagnostics
    attempts,           \* outer attempts begun by serial_execution
    polls,              \* failed polls of the running xferInstruction
    issued,             \* the PE request the running operation has sent
    se_result,          \* the running operation's serial_execution: none, running, entered, failed
    session,            \* the adapter object: none, allocated, released (free), returned
    closes,             \* calls of serial_close
    trace,              \* commands sent by the running operation since serial_execution, polls left out
    reply_len,          \* a->bytes_to_read at each packet of the last step
    target              \* what the commands sent before the last step left on the target: TAP, instruction, MCLR

pktVars == <<output, bytes_to_write, bytes_to_read, input, bytes_in_buffer,
             current_pos_input, position, ppc, wire, payload, io>>

\* The fields of neofoxx_adapter_t.
sessionVars == <<bytes_to_write, bytes_to_read, bytes_in_buffer,
                 current_pos_input, interface, family, way, use_executive,
                 serial_execution_mode, queue>>

cmdVars == <<interface, family, way, use_executive, serial_execution_mode,
             queue, op, args, cont, exited, counter, counterPre, maxCounter,
             ret, words_out, emit, attempts, polls, issued, se_result,
             session, closes, trace, reply_len, target>>

vars == <<pktVars, cmdVars>>

-----------------------------------------------------------------------------
(* Bounds of the byte-level model. *)

\* Longest payload queued before a flush.
MaxPayload == 3
\* Longest single add_to_packet call.
MaxChunk == 2
\* Most read-flagged SENDs queued in one packet.
MaxReplies == 1

\* Byte values the queued data is drawn from: two of them already wrap the
\* 8-bit sum.
ByteChoices == {0, 1, 255}
\* Replies of the adapter to a SEND with the read flag, as the bytes arrive:
\* an 8-bit status, a 32-bit word, a word with every byte in use.
Replies == { <<131, 0, 0, 0, 0, 0, 0, 0>>, <<83, 224, 0, 4, 0, 0, 0, 0>>,
             <<1, 2, 3, 4, 5, 6, 7, 8>> }
\* nBits of the calls of neofoxx_xferData that read: the MTAP status, a
\* 32-bit register.
XferBits == {8, 32}

NoIo == <<"none", 0, 0>>

PACKET_BYTE == 112
COMMAND_GET_INFO == 0
\* the fixed length of the reply to COMMAND_GET_INFO
GET_INFO_REPLY == 128
\* sizeof(uint64_t), the reply of one SEND with the read flag
ReplySize == 8

RECURSIVE SumBytes(_)
SumBytes(s) == IF s = <<>> THEN 0 ELSE Head(s) + SumBytes(Tail(s))

\* All sequences over S of length lo..hi.
SeqsOf(S, lo, hi) == UNION {[1..n -> S] : n \in lo..hi}

-----------------------------------------------------------------------------
(* add_to_packet: open the packet when the buffer is empty, then append. *)

add_to_packet_bytes(out, btw, data) ==
    LET opened == IF btw = 0 THEN <<PACKET_BYTE, 0, 0>> ELSE SubSeq(out, 1, btw)
    IN  opened \o data

add_to_packet ==
    /\ ppc = "idle"
    /\ op # "none"
    /\ cont = <<>>
    /\ \E data \in SeqsOf(ByteChoices, 1, MaxChunk) :
          /\ Len(payload) + Len(data) <= MaxPayload
          /\ output' = add_to_packet_bytes(output, bytes_to_write, data)
          /\ bytes_to_write' = Len(output')
          /\ payload' = payload \o data
    /\ wire' = <<>>
    /\ UNCHANGED <<bytes_to_read, input, bytes_in_buffer, current_pos_input,
                   position, ppc, cmdVars>>
    /\ io' = NoIo

\* The variables of the command level that the byte level leaves alone.
callerKept == <<interface, family, way, use_executive, serial_execution_mode,
                queue, exited, counter, counterPre, maxCounter, words_out,
                emit, attempts, polls, issued, se_result, session, closes,
                trace, reply_len, target>>

\* neofoxx_xferData with readFlag, up to the flush of neofoxx_recv:
\* neofoxx_send queues the SEND and registers the 8-byte reply.
xferData_read ==
    /\ ppc = "idle"
    /\ op # "none"
    /\ cont = <<>>
    /\ bytes_to_read < MaxReplies * ReplySize
    /\ \E data \in SeqsOf(ByteChoices, 1, MaxChunk) :
          /\ Len(payload) + Len(data) <= MaxPayload
          /\ output' = add_to_packet_bytes(output, bytes_to_write, data)
          /\ bytes_to_write' = Len(output')
          /\ payload' = payload \o data
    /\ bytes_to_read' = bytes_to_read + ReplySize
    /\ wire' = <<>>
    /\ \E nBits \in XferBits : args' = <<nBits>>
    /\ op' = "xferData"
    /\ cont' = << <<"recv">> >>
    /\ ret' = <<>>
    /\ io' = NoIo
    /\ UNCHANGED <<input, bytes_in_buffer, current_pos_input, position, ppc,
                   callerKept>>

\* neofoxx_get_capabilities up to its flush, the first call on the session:
\* COMMAND_GET_INFO and a reply of fixed length.
get_capabilities_send ==
    /\ ppc = "idle"
    /\ op = "none"
    /\ output' = add_to_packet_bytes(output, bytes_to_write, <<COMMAND_GET_INFO>>)
    /\ bytes_to_write' = Len(output')
    /\ payload' = payload \o <<COMMAND_GET_INFO>>
    /\ bytes_to_read' = GET_INFO_REPLY
    /\ wire' = <<>>
    /\ op' = "get_capabilities"
    /\ args' = <<>>
    /\ cont' = << <<"decode">> >>
    /\ ret' = <<>>
    /\ io' = NoIo
    /\ UNCHANGED <<input, bytes_in_buffer, current_pos_input, position, ppc,
                   callerKept>>

\* neofoxx_get_capabilities after its flush: the text is decoded and the
\* buffer declared empty.
get_capabilities_decode ==
    /\ ppc = "idle"
    /\ bytes_to_write = 0
    /\ cont = << <<"decode">> >>
    /\ bytes_in_buffer' = 0
    /\ cont' = <<>>
    /\ UNCHANGED <<output, bytes_to_write, bytes_to_read, input,
                   current_pos_input, position, ppc, wire, payload, op,
                   args, ret, callerKept>>
    /\ io' = NoIo

-----------------------------------------------------------------------------
(* bulk_write: checksum, length field, then the write loop. *)

\* crc = sum of output[2 .. bytes_to_write-1], the second length byte included
bulk_write_crc(out, btw) == SumBytes(SubSeq(out, 3, btw)) % 256

\* The buffer as bulk_write leaves it before the write loop.
bulk_write_frame_swapped(out, btw) ==
    LET crc       == bulk_write_crc(out, btw)
        withCrc   == SubSeq(out, 1, btw) \o <<crc>>
        shortTemp == (btw + 1 - 3) % 65536
    IN  [withCrc EXCEPT ![2] = shortTemp \div 256, ![3] = shortTemp % 256]

bulk_write_frame(out, btw) ==
    LET crc       == bulk_write_crc(out, btw)
        withCrc   == SubSeq(out, 1, btw) \o <<crc>>
        shortTemp == (btw + 1 - 3) % 65536
    IN  [withCrc EXCEPT ![3] = shortTemp \div 256, ![2] = shortTemp % 256]

\* neofoxx_flush_output with nothing queued: returns at once.
flush_empty ==
    /\ ppc = "idle"
    /\ bytes_to_write <= 0
    /\ UNCHANGED vars

\* neofoxx_flush_output entering bulk_write.  With fewer than 4 bytes
\* bulk_write returns without writing and the flush drops the packet.
flush_begin ==
    /\ ppc = "idle"
    /\ bytes_to_write > 0
    /\ wire' = <<>>
    /\ position' = 0
    /\ IF bytes_to_write < 4
         THEN /\ UNCHANGED <<output, bytes_to_write>>
              /\ ppc' = "written"
         ELSE /\ output' = bulk_write_frame(output, bytes_to_write)
              /\ bytes_to_write' = bytes_to_write + 1
              /\ ppc' = "writing"
    /\ UNCHANGED <<bytes_to_read, input, bytes_in_buffer, current_pos_input,
                   payload, cmdVars>>
    /\ io' = NoIo

bulk_write_step_from_start ==
    /\ ppc = "writing"
    /\ \E temp \in -1..bytes_to_write :
          /\ io' = <<"serial_write", bytes_to_write, temp>>
          /\ IF temp < 0
               THEN UNCHANGED <<position, bytes_to_write, wire>>
               ELSE /\ position' = position + temp
                    /\ bytes_to_write' = bytes_to_write - temp
                    /\ wire' = wire \o SubSeq(output, 1, temp)
    /\ ppc' = IF bytes_to_write' > 0 THEN "writing" ELSE "written"
    /\ UNCHANGED <<output, bytes_to_read, input, bytes_in_buffer,
                   current_pos_input, payload, cmdVars>>
\* One serial_write call of the loop: temp bytes accepted, or an error.
bulk_write_step ==
    /\ ppc = "writing"
    /\ \E temp \in -1..bytes_to_write :
          /\ io' = <<"serial_write", bytes_to_write, temp>>
          /\ IF temp < 0
               THEN UNCHANGED <<position, bytes_to_write, wire>>
               ELSE /\ position' = position + temp
                    /\ bytes_to_write' = bytes_to_write - temp
                    /\ wire' = wire \o SubSeq(output, position + 1, position + temp)
    /\ ppc' = IF bytes_to_write' > 0 THEN "writing" ELSE "written"
    /\ UNCHANGED <<output, bytes_to_read, input, bytes_in_buffer,
                   current_pos_input, payload, cmdVars>>

flush_written_cursor_reset ==
    /\ ppc = "written"
    /\ bytes_to_write' = 0
    /\ payload' = <<>>
    /\ current_pos_input' = 0
    /\ IF bytes_to_read <= 0
         THEN /\ ppc' = "idle"
              /\ UNCHANGED <<input, bytes_in_buffer>>
         ELSE /\ ppc' = "reading"
              /\ input' = <<>>
              /\ bytes_in_buffer' = 0
    /\ UNCHANGED <<output, bytes_to_read, position, wire, cmdVars>>
    /\ io' = NoIo
\* Back in neofoxx_flush_output after bulk_write.
flush_written ==
    /\ ppc = "written"
    /\ bytes_to_write' = 0
    /\ payload' = <<>>
    /\ IF bytes_to_read <= 0
         THEN /\ ppc' = "idle"
              /\ UNCHANGED <<input, bytes_in_buffer>>
         ELSE /\ ppc' = "reading"
              /\ input' = <<>>
              /\ bytes_in_buffer' = 0
    /\ UNCHANGED <<output, bytes_to_read, current_pos_input, position, wire,
                   cmdVars>>
    /\ io' = NoIo

\* The bytes the adapter answers the running call with.
ReplyFrom(caller) ==
    IF caller = "get_capabilities" THEN {[i \in 1..GET_INFO_REPLY |-> 77]}
    ELSE Replies

flush_read_step_asks_all ==
    /\ ppc = "reading"
    /\ bytes_in_buffer < bytes_to_read
    /\ \E bytes_read \in 0..bytes_to_read :
          /\ io' = <<"serial_read", bytes_to_read, bytes_read>>
          /\ \E reply \in ReplyFrom(op) :
                /\ input = SubSeq(reply, 1, bytes_in_buffer)
                /\ input' = SubSeq(reply, 1, bytes_in_buffer + bytes_read)
          /\ bytes_in_buffer' = bytes_in_buffer + bytes_read
    /\ UNCHANGED <<output, bytes_to_write, bytes_to_read, current_pos_input,
                   position, ppc, wire, payload, cmdVars>>
\* One serial_read call of the reply loop: at most the missing bytes arrive.
flush_read_step ==
    /\ ppc = "reading"
    /\ bytes_in_buffer < bytes_to_read
    /\ \E bytes_read \in 0..(bytes_to_read - bytes_in_buffer) :
          /\ io' = <<"serial_read", bytes_to_read - bytes_in_buffer, bytes_read>>
          /\ \E reply \in ReplyFrom(op) :
                /\ input = SubSeq(reply, 1, bytes_in_buffer)
                /\ input' = SubSeq(reply, 1, bytes_in_buffer + bytes_read)
          /\ bytes_in_buffer' = bytes_in_buffer + bytes_read
    /\ UNCHANGED <<output, bytes_to_write, bytes_to_read, current_pos_input,
                   position, ppc, wire, payload, cmdVars>>

flush_read_done_keeps_cursor ==
    /\ ppc = "reading"
    /\ bytes_in_buffer >= bytes_to_read
    /\ bytes_to_read' = 0
    /\ ppc' = "idle"
    /\ UNCHANGED <<output, bytes_to_write, input, bytes_in_buffer, position,
                   wire, payload, current_pos_input, cmdVars>>
    /\ io' = NoIo
\* The reply is complete.
flush_read_done ==
    /\ ppc = "reading"
    /\ bytes_in_buffer >= bytes_to_read
    /\ bytes_to_read' = 0
    /\ current_pos_input' = 0
    /\ ppc' = "idle"
    /\ UNCHANGED <<output, bytes_to_write, input, bytes_in_buffer, position,
                   wire, payload, cmdVars>>
    /\ io' = NoIo

\* memcpy(&word, bytes, sizeof(word)) on a little-endian host: the 64-bit
\* word as its four 16-bit parts, the least significant first.
Word64(bytes) == [k \in 1..4 |-> bytes[2 * k - 1] + 256 * bytes[2 * k]]

recv_word_low_bits ==
    /\ ppc = "idle"
    /\ bytes_to_write = 0
    /\ cont = << <<"recv">> >>
    /\ LET word == Word64(SubSeq(input, current_pos_input + 1,
                                 current_pos_input + ReplySize))
       IN  ret' = IF args[1] = 8 THEN <<word[1] % 256, 0, 0, 0>>
                  ELSE <<word[1], word[2], 0, 0>>
    /\ current_pos_input' = current_pos_input + ReplySize
    /\ cont' = <<>>
    /\ UNCHANGED <<output, bytes_to_write, bytes_to_read, input,
                   bytes_in_buffer, position, ppc, wire, payload, op,
                   args, callerKept>>
    /\ io' = NoIo
\* neofoxx_recv after its flush, and the return of neofoxx_xferData: one
\* 64-bit word is copied from the buffer at the cursor.  Bytes beyond those
\* received are whatever the buffer holds.
recv_word ==
    /\ ppc = "idle"
    /\ bytes_to_write = 0
    /\ cont = << <<"recv">> >>
    /\ IF current_pos_input + ReplySize <= bytes_in_buffer
         THEN ret' = Word64(SubSeq(input, current_pos_input + 1,
                                   current_pos_input + ReplySize))
         ELSE \E stale \in Replies : ret' = Word64(stale)
    /\ current_pos_input' = current_pos_input + ReplySize
    /\ cont' = <<>>
    /\ UNCHANGED <<output, bytes_to_write, bytes_to_read, input,
                   bytes_in_buffer, position, ppc, wire, payload, op,
                   args, callerKept>>
    /\ io' = NoIo

\* Nothing has been sent to the target: no TAP switch, no instruction, MCLR
\* not driven.
NoTarget == [tap |-> "none", ir |-> "none", mclr |-> "none"]

\* What adapter_open_neofoxx has left when it returns a session: MCLR high
\* (enter_icsp, or the pulse after the IDCODE), then TAP_SW_MTAP and
\* MTAP_COMMAND for the status.
Opened == [tap |-> "TAP_SW_MTAP", ir |-> "MTAP_COMMAND",
           mclr |-> "PIN_SET_OUTPUT_HIGH"]

\* What the command c leaves on the target that was left as t: a 5-bit
\* instruction is the one selected, and the TAP in use when it is a switch;
\* a SEND of TMS bits alone (TAP reset, exit, the ICSP-sync key) leaves no
\* instruction of the program selected; a pin command for MCLR sets its
\* level.
DrivenBy(t, c) ==
    IF c[1] = "SEND" /\ c[5][1] = "sym" /\ c[4] = 5
      THEN [t EXCEPT !.ir = c[5][2],
                     !.tap = IF c[5][2] \in {"TAP_SW_MTAP", "TAP_SW_ETAP"}
                               THEN c[5][2] ELSE @]
    ELSE IF c[1] = "SEND" /\ c[4] = 0 THEN [t EXCEPT !.ir = "none"]
    ELSE IF c[1] = "PIN" /\ c[2] = "PIN_MCLR" THEN [t EXCEPT !.mclr = c[3]]
    ELSE t

RECURSIVE Driven(_, _)
Driven(t, cmds) ==
    IF cmds = <<>> THEN t ELSE Driven(DrivenBy(t, Head(cmds)), Tail(cmds))

\* The transport fields of a session that adapter_open has just returned.
InitTransport ==
    /\ output = <<>>
    /\ bytes_to_write = 0
    /\ bytes_to_read = 0
    /\ input = <<>>
    /\ bytes_in_buffer = 0
    /\ current_pos_input = 0
    /\ position = 0
    /\ ppc = "idle"
    /\ wire = <<>>
    /\ payload = <<>>
    /\ io = NoIo

\* The command level at rest.
InitIdle ==
    /\ use_executive = 0
    /\ serial_execution_mode = 0
    /\ queue = <<>>
    /\ op = "none"
    /\ args = <<>>
    /\ cont = <<>>
    /\ exited = FALSE
    /\ counter = 0
    /\ counterPre = 0
    /\ maxCounter = 0
    /\ ret = <<>>
    /\ words_out = 0
    /\ emit = <<>>
    /\ attempts = 0
    /\ polls = 0
    /\ issued = <<"none">>
    /\ se_result = "none"
    /\ closes = 0
    /\ trace = <<>>
    /\ reply_len = <<>>

InitPacket ==
    /\ InitTransport
    /\ InitIdle
    /\ target = Opened
    /\ session = "returned"
    /\ interface \in {"INTERFACE_DEFAULT", "INTERFACE_JTAG", "INTERFACE_ICSP"}
    /\ family = "FAMILY_MX1"
    /\ way = "WAY_OLD"

\* The session at the call of neofoxx_get_capabilities.
InitOpening ==
    /\ InitTransport
    /\ InitIdle
    /\ target = NoTarget
    /\ session = "allocated"
    /\ interface = "INTERFACE_DEFAULT"
    /\ family = "FAMILY_MX1"
    /\ way = "WAY_OLD"

NextPacket ==
    \/ get_capabilities_send
    \/ get_capabilities_decode
    \/ add_to_packet
    \/ xferData_read
    \/ flush_empty
    \/ flush_begin
    \/ bulk_write_step
    \/ flush_written
    \/ flush_read_step
    \/ flush_read_done
    \/ recv_word

SpecPacket == InitOpening /\ [][NextPacket]_vars

-----------------------------------------------------------------------------
(* The wire format, read back: sync byte, 16-bit little-endian length of    *)
(* what follows the length field, payload, 8-bit checksum.                  *)

DecodeLen(frame) == frame[2] + 256 * frame[3]

DecodeOk(frame) ==
    /\ Len(frame) >= 4
    /\ frame[1] = PACKET_BYTE
    /\ DecodeLen(frame) = Len(frame) - 3
    /\ frame[Len(frame)] = SumBytes(SubSeq(frame, 4, Len(frame) - 1)) % 256

DecodePayload(frame) == SubSeq(frame, 4, 3 + DecodeLen(frame) - 1)

-----------------------------------------------------------------------------
(*                       THE COMMAND LEVEL                                  *)
(*                                                                          *)
(* A 32-bit word is the pair <<high 16 bits, low 16 bits>>.  A control or   *)
(* status register value is the set of the bits that are set in it, named   *)
(* as the code names the masks it tests.                                    *)

W(hi, lo) == <<hi, lo>>

\* Bounds of the command-level model.

\* Most words a read_data or verify_data call is asked for.
MaxWords == 2
\* Longest row handed to program_row.
MaxRow == 9
\* Words of the PE image handed to load_executive.
MaxPe == 2
\* Pairs of 16-bit words in the PE loader stub.
LoaderPairs == 2

\* PE opcodes (pic32.h); only their being distinct matters here.
PE_ROW_PROGRAM == 0
PE_READ == 1
PE_WORD_PROGRAM == 3
PE_EXEC_VERSION == 7
PE_GET_CRC == 8
PE_QUAD_WORD_PGRM == 13
PE_DOUBLE_WORD_PGRM == 14

\* Width of the MTAP command data register (pic32.h).
MTAP_COMMAND_DR_NBITS == 8

\* The loader stubs (pic32.h): PIC32_PE_LOADER_LEN 16-bit words each.
PIC32_PE_LOADER_LEN == 2 * LoaderPairs
PIC32_PEMM_LOADER_LEN == 2 * LoaderPairs
pic32_pe_loader == [i \in 1..PIC32_PE_LOADER_LEN |-> 256 + i]
pic32_pemm_loader == [i \in 1..PIC32_PEMM_LOADER_LEN |-> 512 + i]

\* Bytes one SEND command takes in the packet: the opcode, six 32-bit
\* fields and the 64-bit TDI field.
SEND_BYTES == 33
\* Bytes of a SET_PIN_IO_MODE command.
PIN_BYTES == 3

MtapCommands == {"MTAP_COMMAND", "TAP_SW_MTAP", "TAP_SW_ETAP", "MTAP_IDCODE"}
EtapCommands == {"ETAP_ADDRESS", "ETAP_DATA", "ETAP_CONTROL", "ETAP_EJTAGBOOT",
                 "ETAP_FASTDATA", "ETAP_NORMALBOOT"}

IsMX(f) == f = "FAMILY_MX1" \/ f = "FAMILY_MX3"
IsJtag(i) == i = "INTERFACE_JTAG" \/ i = "INTERFACE_DEFAULT"

\* What the callers pass.
AddrChoices == {W(\H1d00, 0)}
WordChoices == {W(0, 0), W(\Hdead, \Hbeef)}
PeVersions == {\H0301}

-----------------------------------------------------------------------------
(* calculate_crc, on a crc kept at its 32-bit width as <<high, low>>. *)

RECURSIVE BitXor(_, _)
BitXor(a, b) ==
    IF a = 0 THEN b
    ELSE IF b = 0 THEN a
    ELSE ((a + b) % 2) + 2 * BitXor(a \div 2, b \div 2)

crc_table == <<\H0000, \H1021, \H2042, \H3063, \H4084, \H50a5, \H60c6, \H70e7,
               \H8108, \H9129, \Ha14a, \Hb16b, \Hc18c, \Hd1ad, \He1ce, \Hf1ef>>

\* crc = crc_table[((crc >> 12) ^ nibble) & 0x0F] ^ (crc << 4)
crc_nibble_low_index(crc, nibble) ==
    LET i     == BitXor(crc[2] % 16, nibble % 16)
        shHi  == (crc[1] * 16 + crc[2] \div 4096) % 65536
        shLo  == (crc[2] * 16) % 65536
    IN  <<shHi, BitXor(crc_table[i + 1], shLo)>>

crc_nibble(crc, nibble) ==
    LET i     == BitXor((crc[2] \div 4096) % 16, nibble % 16)
        shHi  == (crc[1] * 16 + crc[2] \div 4096) % 65536
        shLo  == (crc[2] * 16) % 65536
    IN  <<shHi, BitXor(crc_table[i + 1], shLo)>>

RECURSIVE crc_bytes(_, _)
crc_bytes(crc, data) ==
    IF data = <<>> THEN crc
    ELSE crc_bytes(crc_nibble(crc_nibble(crc, Head(data) \div 16), Head(data)),
                   Tail(data))

\* return crc & 0xffff
calculate_crc(crc, data) == crc_bytes(<<0, crc>>, data)[2]

\* The bytes of an array of words as the (little-endian) host stores them.
RECURSIVE BytesOf(_)
BytesOf(words) ==
    IF words = <<>> THEN <<>>
    ELSE LET w == Head(words)
         IN  <<w[2] % 256, w[2] \div 256, w[1] % 256, w[1] \div 256>>
             \o BytesOf(Tail(words))

-----------------------------------------------------------------------------
(* The transport as the command level sees it.  A step threads the record   *)
(* of the transport fields through the calls it makes; what it hands to the *)
(* transport, the delays it takes and what it prints are collected in ev.   *)

Sess == [queue |-> queue, btw |-> bytes_to_write, btr |-> bytes_to_read,
         bib |-> bytes_in_buffer, cur |-> current_pos_input, ev |-> <<>>,
         exp |-> <<>>, fatal |-> FALSE]

add_to_packet_cmd(s, cmd, nbytes) ==
    [s EXCEPT !.queue = Append(@, cmd),
              !.btw = (IF @ = 0 THEN 3 ELSE @) + nbytes]

neofoxx_flush_output_clears_first(s) ==
    LET w == [s EXCEPT !.btw = 0, !.queue = <<>>]
    IN  IF s.btw <= 0 THEN [w EXCEPT !.btr = 0, !.cur = 0]
        ELSE IF s.btr <= 0 THEN [w EXCEPT !.ev = Append(@, <<"pkt", s.queue>>),
                                          !.exp = Append(@, s.btr)]
        ELSE [w EXCEPT !.ev = Append(@, <<"pkt", s.queue>>),
                       !.exp = Append(@, s.btr),
                       !.bib = s.btr, !.btr = 0, !.cur = 0]
\* neofoxx_flush_output; the reply, when one is expected, has arrived in full
\* when it returns.
neofoxx_flush_output(s) ==
    IF s.btw <= 0 THEN s
    ELSE LET w == [s EXCEPT !.ev = Append(@, <<"pkt", s.queue>>),
                            !.exp = Append(@, s.btr),
                            !.queue = <<>>, !.btw = 0]
         IN  IF w.btr <= 0 THEN w
             ELSE [w EXCEPT !.bib = w.btr, !.btr = 0, !.cur = 0]

neofoxx_send_expects_always(s, cmd, read_flag) ==
    LET q == add_to_packet_cmd(s, cmd, SEND_BYTES)
    IN  [q EXCEPT !.btr = @ + ReplySize]
neofoxx_send(s, cmd, read_flag) ==
    LET q == add_to_packet_cmd(s, cmd, SEND_BYTES)
    IN  IF read_flag # 0 THEN [q EXCEPT !.btr = @ + ReplySize] ELSE q

neofoxx_recv(s) ==
    LET f == neofoxx_flush_output(s)
    IN  [f EXCEPT !.cur = @ + ReplySize]

mdelay(s, ms) == [s EXCEPT !.ev = Append(@, <<"mdelay", ms>>)]
calloc(s) == [s EXCEPT !.ev = Append(@, <<"calloc">>)]
return_session(s) == [s EXCEPT !.ev = Append(@, <<"return_session">>)]
serial_close(s) == [s EXCEPT !.ev = Append(@, <<"serial_close">>)]
free(s) == [s EXCEPT !.ev = Append(@, <<"free">>)]
log(s, msg) == [s EXCEPT !.ev = Append(@, <<"log", msg>>)]
\* fprintf(stderr, msg); exit(-1)
fatal(s, msg) == [log(s, msg) EXCEPT !.fatal = TRUE]

Flushed(s, immediate) == IF immediate # 0 THEN neofoxx_flush_output(s) ELSE s

\* One SEND command, with the arguments of neofoxx_send; tdi is a tagged
\* value: a command code or MCHP_* byte by name, a set of control bits, a
\* 32-bit word, or a FASTDATA word shifted left by one.
Send(tms_prolog_nbits, tms_prolog, tdi_nbits, tdi, tms_epilog_nbits, tms_epilog, read_flag) ==
    <<"SEND", tms_prolog_nbits, tms_prolog, tdi_nbits, tdi, tms_epilog_nbits,
      tms_epilog, read_flag>>
\* One SET_PIN_IO_MODE command.
Pin(pin, mode) == <<"PIN", pin, mode>>

Sym(name) == <<"sym", name>>
Ctl(bits) == <<"ctl", bits>>
Word(w) == <<"word", w[1], w[2]>>
Shl1(w) == <<"shl1", w[1], w[2]>>
NoTdi == <<"none">>

\* TMS header and footer defines
TMS_HEADER_COMMAND_NBITS == 4
TMS_HEADER_COMMAND_VAL == 3
TMS_HEADER_XFERDATA_NBITS == 3
TMS_HEADER_XFERDATA_VAL == 1
TMS_HEADER_XFERDATAFAST_NBITS == 3
TMS_HEADER_XFERDATAFAST_VAL == 1
TMS_HEADER_RESET_TAP_NBITS == 6
TMS_HEADER_RESET_TAP_VAL == 31
TMS_FOOTER_COMMAND_NBITS == 2
TMS_FOOTER_COMMAND_VAL == 1
TMS_FOOTER_XFERDATA_NBITS == 2
TMS_FOOTER_XFERDATA_VAL == 1
TMS_FOOTER_XFERDATAFAST_NBITS == 2
TMS_FOOTER_XFERDATAFAST_VAL == 1
\* Width of an MTAP or ETAP command (pic32.h).
MTAP_COMMAND_NBITS == 5
ETAP_COMMAND_NBITS == 5

\* What a queued command is.
IsSend(c) == c[1] = "SEND"
IsSelect(c) == IsSend(c) /\ c[5][1] = "sym" /\ c[4] = MTAP_COMMAND_NBITS
IsSelectOf(c, names) == IsSelect(c) /\ c[5][2] \in names
IsFast(c) == IsSend(c) /\ c[5][1] = "shl1"

\* The commands of the packets of ev, in the order they were sent.
RECURSIVE CmdsOf(_)
CmdsOf(ev) ==
    IF ev = <<>> THEN <<>>
    ELSE (IF Head(ev)[1] = "pkt" THEN Head(ev)[2] ELSE <<>>) \o CmdsOf(Tail(ev))

\* The PE request that has been sent: the high half of the first word shifted
\* through FASTDATA since ETAP_FASTDATA was last selected.
RECURSIVE Requested(_, _)
Requested(i, cmds) ==
    IF cmds = <<>> THEN i
    ELSE Requested(IF IsSelectOf(Head(cmds), {"ETAP_FASTDATA"}) THEN <<"armed">>
                   ELSE IF IsFast(Head(cmds)) /\ i = <<"armed">>
                     THEN <<"op", Head(cmds)[5][2]>>
                   ELSE i,
                   Tail(cmds))

\* How often ev has an event of the kind.
RECURSIVE CountOf(_, _)
CountOf(ev, kind) ==
    IF ev = <<>> THEN 0
    ELSE (IF Head(ev)[1] = kind THEN 1 ELSE 0) + CountOf(Tail(ev), kind)

\* The commands of cmds that are no polls: those sent without the read
\* flag, and the FASTDATA transfers.
Traced(cmds) ==
    SelectSeq(cmds, LAMBDA c : IF IsSend(c) THEN c[8] = 0 \/ IsFast(c) ELSE TRUE)

\* The step's effect on the transport fields and on what was observed.
Commit(s) ==
    /\ queue' = s.queue
    /\ bytes_to_write' = s.btw
    /\ bytes_to_read' = s.btr
    /\ bytes_in_buffer' = s.bib
    /\ current_pos_input' = s.cur
    /\ emit' = s.ev
    /\ reply_len' = s.exp
    /\ trace' = IF cont = <<>> \/ Head(cont)[1] = "se_return" THEN <<>>
                 ELSE trace \o Traced(CmdsOf(s.ev))
    /\ issued' = Requested(issued, CmdsOf(s.ev))
    /\ closes' = closes + CountOf(s.ev, "serial_close")
    /\ target' = Driven(target, CmdsOf(emit))
    /\ session' = IF CountOf(s.ev, "free") > 0 THEN "released"
                  ELSE IF CountOf(s.ev, "return_session") > 0 THEN "returned"
                  ELSE IF CountOf(s.ev, "calloc") > 0 THEN "allocated"
                  ELSE session
    /\ UNCHANGED <<output, input, position, ppc, wire, payload, io>>

\* exit(-1)
Exit ==
    /\ exited' = TRUE
    /\ cont' = <<>>

\* The step ends the process when it called exit, and goes on with rest
\* otherwise.
Continue(s, rest) ==
    IF s.fatal THEN Exit ELSE /\ cont' = rest
                              /\ UNCHANGED exited

-----------------------------------------------------------------------------
(* The leaf calls: each queues its command and, when immediate, flushes. *)

\* neofoxx_setProgMode: COMMAND_SET_PROG_MODE and the mode.
PROG_MODE_BYTES == 2
neofoxx_setProgMode(s, mode, immediate) ==
    Flushed(add_to_packet_cmd(s, <<"PROG_MODE", mode>>, PROG_MODE_BYTES), immediate)

neofoxx_setPins(s, pin, pin_dir, pin_val, immediate) ==
    LET mode == IF pin_dir = "PIN_DIR_INPUT" THEN "PIN_SET_INPUT"
                ELSE IF pin_val = "PIN_VAL_LOW" THEN "PIN_SET_OUTPUT_LOW"
                ELSE "PIN_SET_OUTPUT_HIGH"
    IN  Flushed(add_to_packet_cmd(s, Pin(pin, mode), PIN_BYTES), immediate)

\* 32-bit bit reversal, on <<high, low>>.
Bit(x, i) == (x \div (2 ^ i)) % 2
RECURSIVE Reverse16(_, _)
Reverse16(x, n) ==
    IF n = 0 THEN 0 ELSE Bit(x, 0) * 2 ^ (n - 1) + Reverse16(x \div 2, n - 1)
neofoxx_bitReversal_in_halves(w) == <<Reverse16(w[1], 16), Reverse16(w[2], 16)>>

neofoxx_bitReversal(w) == <<Reverse16(w[2], 16), Reverse16(w[1], 16)>>

\* entryCode = bitReversal(0x4D434850), "MCHP"
entryCode == neofoxx_bitReversal(W(\H4D43, \H4850))

neofoxx_setMode_high_byte_first(s, mode, immediate) ==
    IF mode = "SET_MODE_TAP_RESET"
      THEN Flushed(neofoxx_send(s, Send(TMS_HEADER_RESET_TAP_NBITS,
                       TMS_HEADER_RESET_TAP_VAL, 0, NoTdi, 0, 0, 0), 0), immediate)
    ELSE IF mode = "SET_MODE_EXIT"
      THEN Flushed(neofoxx_send(s, Send(5, 31, 0, NoTdi, 0, 0, 0), 0), immediate)
    ELSE IF mode = "SET_MODE_ICSP_SYNC" /\ IsJtag(interface)
      THEN LET s1 == neofoxx_send(s, Send(8, entryCode[1] \div 256, 0, NoTdi, 0, 0, 0), 0)
               s2 == neofoxx_send(s1, Send(8, entryCode[1] % 256, 0, NoTdi, 0, 0, 0), 0)
               s3 == neofoxx_send(s2, Send(8, entryCode[2] \div 256, 0, NoTdi, 0, 0, 0), 0)
               s4 == neofoxx_send(s3, Send(8, entryCode[2] % 256, 0, NoTdi, 0, 0, 0), 0)
           IN  Flushed(s4, immediate)
    ELSE fatal(s, "neofoxx_setMode called with invalid mode, quitting")
neofoxx_setMode_reset_as_exit(s, mode, immediate) ==
    IF mode \in {"SET_MODE_TAP_RESET", "SET_MODE_EXIT"}
      THEN Flushed(neofoxx_send(s, Send(5, 31, 0, NoTdi, 0, 0, 0), 0), immediate)
    ELSE fatal(s, "neofoxx_setMode called with invalid mode, quitting")
neofoxx_setMode(s, mode, immediate) ==
    IF mode = "SET_MODE_TAP_RESET"
      THEN Flushed(neofoxx_send(s, Send(TMS_HEADER_RESET_TAP_NBITS,
                       TMS_HEADER_RESET_TAP_VAL, 0, NoTdi, 0, 0, 0), 0), immediate)
    ELSE IF mode = "SET_MODE_EXIT"
      THEN Flushed(neofoxx_send(s, Send(5, 31, 0, NoTdi, 0, 0, 0), 0), immediate)
    ELSE IF mode = "SET_MODE_ICSP_SYNC" /\ IsJtag(interface)
      THEN LET s1 == neofoxx_send(s, Send(8, entryCode[2] % 256, 0, NoTdi, 0, 0, 0), 0)
               s2 == neofoxx_send(s1, Send(8, entryCode[2] \div 256, 0, NoTdi, 0, 0, 0), 0)
               s3 == neofoxx_send(s2, Send(8, entryCode[1] % 256, 0, NoTdi, 0, 0, 0), 0)
               s4 == neofoxx_send(s3, Send(8, entryCode[1] \div 256, 0, NoTdi, 0, 0, 0), 0)
           IN  Flushed(s4, immediate)
    ELSE fatal(s, "neofoxx_setMode called with invalid mode, quitting")

neofoxx_sendCommand_warns_only(s, command, immediate) ==
    LET w == IF command \notin MtapCommands \cup EtapCommands
               THEN log(s, "neofoxx_sendCommand called with invalid command, quitting")
               ELSE s
        q == neofoxx_send(w, Send(TMS_HEADER_COMMAND_NBITS,
                 TMS_HEADER_COMMAND_VAL, MTAP_COMMAND_NBITS, Sym(command),
                 TMS_FOOTER_COMMAND_NBITS, TMS_FOOTER_COMMAND_VAL, 0), 0)
    IN  Flushed(q, immediate)
neofoxx_sendCommand(s, command, immediate) ==
    IF command \notin MtapCommands \cup EtapCommands
      THEN fatal(s, "neofoxx_sendCommand called with invalid command, quitting")
    ELSE LET q == IF command \notin MtapCommands
                    THEN neofoxx_send(s, Send(TMS_HEADER_COMMAND_NBITS,
                             TMS_HEADER_COMMAND_VAL, MTAP_COMMAND_NBITS,
                             Sym(command), TMS_FOOTER_COMMAND_NBITS,
                             TMS_FOOTER_COMMAND_VAL, 0), 0)
                  ELSE IF command \notin EtapCommands
                    THEN neofoxx_send(s, Send(TMS_HEADER_COMMAND_NBITS,
                             TMS_HEADER_COMMAND_VAL, ETAP_COMMAND_NBITS,
                             Sym(command), TMS_FOOTER_COMMAND_NBITS,
                             TMS_FOOTER_COMMAND_VAL, 0), 0)
                  ELSE s
         IN  Flushed(q, immediate)

\* neofoxx_xferData; with readFlag the reply is flushed for and consumed
\* (the value is the target's to choose).
neofoxx_xferData(s, nBits, iData, readFlag, immediate) ==
    LET q == neofoxx_send(s, Send(TMS_HEADER_XFERDATA_NBITS,
                 TMS_HEADER_XFERDATA_VAL, nBits, iData,
                 TMS_FOOTER_XFERDATA_NBITS, TMS_FOOTER_XFERDATA_VAL, readFlag),
                 readFlag)
    IN  IF readFlag # 0 THEN neofoxx_recv(q) ELSE Flushed(q, immediate)

xferFastData_send_deferred(s, word) ==
    neofoxx_send(s, Send(TMS_HEADER_XFERDATAFAST_NBITS,
        TMS_HEADER_XFERDATAFAST_VAL, 33, Shl1(word),
        TMS_FOOTER_XFERDATAFAST_NBITS, TMS_FOOTER_XFERDATAFAST_VAL, 1), 1)
\* neofoxx_xferFastData_PC_slow up to the reply: always sent with the read
\* flag and received.
xferFastData_send(s, word) ==
    neofoxx_recv(neofoxx_send(s, Send(TMS_HEADER_XFERDATAFAST_NBITS,
        TMS_HEADER_XFERDATAFAST_VAL, 33, Shl1(word),
        TMS_FOOTER_XFERDATAFAST_NBITS, TMS_FOOTER_XFERDATAFAST_VAL, 1), 1))

neofoxx_xferFastData_MCU_fast(s, word, readFlag) ==
    neofoxx_send(s, Send(TMS_HEADER_XFERDATAFAST_NBITS,
        TMS_HEADER_XFERDATAFAST_VAL, 33, Shl1(word),
        TMS_FOOTER_XFERDATAFAST_NBITS, TMS_FOOTER_XFERDATAFAST_VAL, readFlag),
        readFlag)

-----------------------------------------------------------------------------
(* What an operation still has to execute is a sequence of items: a call    *)
(* with its arguments, a loop or check of the function that is running, or  *)
(* the return to the caller of the public operation.  A step runs up to the *)
(* next read of a reply from the target.                                    *)

I_sendCommand(command, immediate) == <<"sendCommand", command, immediate>>
I_setMode(mode, immediate) == <<"setMode", mode, immediate>>
I_setPins(pin, dir, val, immediate) == <<"setPins", pin, dir, val, immediate>>
I_xferData(nBits, iData, immediate) == <<"xferData", nBits, iData, immediate>>
I_xferFastData(word, readFlag) == <<"xferFastData", word, readFlag>>
I_xferFastData_MCU_fast(word, readFlag) == <<"xferFastData_MCU_fast", word, readFlag>>
I_flush == <<"flush">>
I_mdelay(ms) == <<"mdelay", ms>>
I_log(msg) == <<"log", msg>>
I_exit(msg) == <<"exit", msg>>
I_set_use_executive == <<"set_use_executive">>
I_serial_execution == <<"serial_execution">>
I_se_status == <<"se_status">>
I_se_attempt == <<"se_attempt">>
I_se_poll == <<"se_poll">>
I_se_after == <<"se_after">>
I_se_loop == <<"se_loop">>
I_se_return == <<"se_return">>
I_read_word(addr) == <<"neofoxx_read_word", addr>>
I_xferInstruction(instruction) == <<"xferInstruction", instruction>>
I_xi_poll(instruction) == <<"xi_poll", instruction>>
I_get_pe_response == <<"get_pe_response">>
I_pe_poll == <<"pe_poll">>
I_check(expected, msg) == <<"check_response", expected, msg>>
I_store == <<"store">>
I_verify_crc(addr, data) == <<"verify_crc", addr, data>>
I_return == <<"return">>
I_setProgMode(mode, immediate) == <<"setProgMode", mode, immediate>>
I_serial_close == <<"serial_close">>
I_free == <<"free">>
I_open_capabilities(itf, speed) == <<"open_capabilities", itf, speed>>
I_open_attempt == <<"open_attempt">>
I_open_idcode == <<"open_idcode">>
I_enter_icsp_bit(c) == <<"enter_icsp_bit", c>>
I_open_status(idcode) == <<"open_status", idcode>>
I_erase_chip == <<"erase_chip">>
I_erase_poll == <<"erase_poll">>

\* The calls that read nothing back.
SimpleItems == {"sendCommand", "setMode", "setPins", "xferData", "flush",
                "mdelay", "log", "exit", "xferFastData_MCU_fast",
                "setProgMode", "serial_close", "free"}

Apply(s, it) ==
    CASE it[1] = "sendCommand" -> neofoxx_sendCommand(s, it[2], it[3])
      [] it[1] = "setMode"     -> neofoxx_setMode(s, it[2], it[3])
      [] it[1] = "setPins"     -> neofoxx_setPins(s, it[2], it[3], it[4], it[5])
      [] it[1] = "xferData"    -> neofoxx_xferData(s, it[2], it[3], 0, it[4])
      [] it[1] = "flush"       -> neofoxx_flush_output(s)
      [] it[1] = "mdelay"      -> mdelay(s, it[2])
      [] it[1] = "log"         -> log(s, it[2])
      [] it[1] = "exit"        -> fatal(s, it[2])
      [] it[1] = "xferFastData_MCU_fast"
                               -> neofoxx_xferFastData_MCU_fast(s, it[2], it[3])
      [] it[1] = "setProgMode" -> neofoxx_setProgMode(s, it[2], it[3])
      [] it[1] = "serial_close" -> serial_close(s)
      [] it[1] = "free"        -> free(s)

\* The calls of items one after the other, up to an exit.
RECURSIVE Do(_, _)
Do(s, items) ==
    IF items = <<>> \/ s.fatal THEN s
    ELSE Do(Apply(s, Head(items)), Tail(items))

\* How many items at the head of items read nothing back.
RECURSIVE SimplePrefix(_)
SimplePrefix(items) ==
    IF items = <<>> \/ Head(items)[1] \notin SimpleItems THEN 0
    ELSE 1 + SimplePrefix(Tail(items))

Running == ~exited /\ op # "none" /\ cont # <<>>
At(tag) == Running /\ Head(cont)[1] = tag

\* Locals, ghosts and session flags a step leaves alone.
KeepFlags == UNCHANGED <<interface, family, way, use_executive,
                         serial_execution_mode>>
KeepLoop == UNCHANGED <<counter, counterPre, maxCounter, attempts, polls,
                        se_result>>

\* The running function's calls up to its next read.
Step ==
    /\ Running
    /\ Head(cont)[1] \in SimpleItems
    /\ LET n == SimplePrefix(cont)
           s == Do(Sess, SubSeq(cont, 1, n))
       IN  /\ Commit(s)
           /\ Continue(s, SubSeq(cont, n + 1, Len(cont)))
    /\ KeepFlags
    /\ KeepLoop
    /\ UNCHANGED <<op, args, ret, words_out>>

\* a->use_executive = 1
SetUseExecutive ==
    /\ At("set_use_executive")
    /\ use_executive' = 1
    /\ Commit(Sess)
    /\ cont' = Tail(cont)
    /\ KeepLoop
    /\ UNCHANGED <<interface, family, way, serial_execution_mode, op, args,
                   exited, ret, words_out>>

\* What FASTDATA shifts out: the PrACC bit and a word.
FastReplies == {<<pracc, w>> : pracc \in {0, 1}, w \in WordChoices}

neofoxx_xferFastData_PC_slow_strict ==
    /\ At("xferFastData")
    /\ \E temp \in FastReplies :
          LET s1 == xferFastData_send(Sess, Head(cont)[2])
              s2 == IF temp[1] = 0
                      THEN fatal(s1, "Warning: PrACC not set in xferFastData")
                      ELSE s1
          IN  /\ Commit(s2)
              /\ Continue(s2, Tail(cont))
              /\ ret' = IF Head(cont)[3] # 0 THEN temp ELSE <<0, W(0, 0)>>
    /\ KeepFlags
    /\ KeepLoop
    /\ UNCHANGED <<op, args, words_out>>
\* neofoxx_xferFastData_PC_slow: the transfer, the reply, the warning, and
\* the value returned: the reply with readFlag, 0 without.
neofoxx_xferFastData_PC_slow ==
    /\ At("xferFastData")
    /\ \E temp \in FastReplies :
          LET s1 == xferFastData_send(Sess, Head(cont)[2])
              s2 == IF temp[1] = 0
                      THEN log(s1, "Warning: PrACC not set in xferFastData")
                      ELSE s1
          IN  /\ Commit(s2)
              /\ ret' = IF Head(cont)[3] # 0 THEN temp ELSE <<0, W(0, 0)>>
    /\ cont' = Tail(cont)
    /\ KeepFlags
    /\ KeepLoop
    /\ UNCHANGED <<op, args, exited, words_out>>

-----------------------------------------------------------------------------
(* neofoxx_xferInstruction_PC_slow and get_pe_response *)

\* What a read of the EJTAG control register returns, as far as its reader
\* looks at it: xferInstruction and serial_execution test ProbEn,
\* get_pe_response tests PrAcc.
ProbEnReplies == SUBSET {"PROBEN"}
PrAccReplies == SUBSET {"PRACC"}

CONTROL_POLL == Ctl({"PRACC", "PROBEN", "PROBTRAP", "EJTAGBRK"})
CONTROL_RESUME == Ctl({"PROBEN", "PROBTRAP"})

\* neofoxx_xferInstruction_PC_slow is called: maxCounter = 0 and the control
\* register is selected.
neofoxx_xferInstruction_PC_slow ==
    /\ At("xferInstruction")
    /\ maxCounter' = 0
    /\ polls' = 0
    /\ Commit(neofoxx_sendCommand(Sess, "ETAP_CONTROL", 1))
    /\ cont' = << I_xi_poll(Head(cont)[2]) >> \o Tail(cont)
    /\ KeepFlags
    /\ UNCHANGED <<op, args, exited, counter, counterPre, attempts, se_result,
                   ret, words_out>>

\* if (maxCounter > 40) after maxCounter++
xferInstruction_giveup(failed) == failed > 40

\* What xferInstruction does once ProbEn was read set.
xferInstruction_execute_resume_first(s, instruction) ==
    Do(s, << I_sendCommand("ETAP_CONTROL", 1),
             I_xferData(32, CONTROL_RESUME, 1),
             I_sendCommand("ETAP_DATA", 1),
             I_xferData(32, Word(instruction), 1) >>)
xferInstruction_execute(s, instruction) ==
    Do(s, << I_sendCommand("ETAP_DATA", 1),
             I_xferData(32, Word(instruction), 1),
             I_sendCommand("ETAP_CONTROL", 1),
             I_xferData(32, CONTROL_RESUME, 1) >>)

\* One pass of the do-while of xferInstruction: the poll; with ProbEn clear
\* the count, then the exit or the delay of a second; with ProbEn set the
\* rest of the function and its return (the locals are gone).
xi_poll ==
    /\ At("xi_poll")
    /\ \E ctl \in ProbEnReplies :
          LET s1 == neofoxx_xferData(Sess, 32, CONTROL_POLL, 1, 1)
              s2 == log(s1, "xfer instruction, ctl was")
          IN  /\ ret' = ctl
              /\ IF "PROBEN" \notin ctl
                   THEN /\ maxCounter' = maxCounter + 1
                        /\ polls' = polls + 1
                        /\ IF xferInstruction_giveup(maxCounter + 1)
                             THEN LET s3 == fatal(s2, "Processor still not ready. Quitting")
                                  IN  Commit(s3) /\ Continue(s3, cont)
                             ELSE LET s3 == mdelay(s2, 1000)
                                  IN  Commit(s3) /\ Continue(s3, cont)
                   ELSE LET s3 == xferInstruction_execute(s1, Head(cont)[2])
                        IN  /\ maxCounter' = 0
                            /\ polls' = 0
                            /\ Commit(s3)
                            /\ Continue(s3, Tail(cont))
    /\ KeepFlags
    /\ UNCHANGED <<op, args, counter, counterPre, attempts, se_result, words_out>>

\* get_pe_response is called: the control register is selected.
get_pe_response ==
    /\ At("get_pe_response")
    /\ Commit(neofoxx_sendCommand(Sess, "ETAP_CONTROL", 1))
    /\ cont' = << I_pe_poll >> \o Tail(cont)
    /\ KeepFlags
    /\ KeepLoop
    /\ UNCHANGED <<op, args, exited, ret, words_out>>

\* Data a verify_data caller may hold, and the CRCs of it.
VerifyData == {[i \in 1..n |-> W(\Hdead, \Hbeef)] : n \in 1..MaxWords}
CrcChoices == {calculate_crc(\Hffff, BytesOf(d)) : d \in VerifyData}

\* What the PE may answer: any of the opcodes in the high half, and a low
\* half.
PeHi == {PE_ROW_PROGRAM, PE_READ, PE_WORD_PROGRAM, PE_EXEC_VERSION,
         PE_GET_CRC, PE_QUAD_WORD_PGRM, PE_DOUBLE_WORD_PGRM}
PeLo == {0} \cup PeVersions \cup CrcChoices
PeResponses == {W(hi, lo) : hi \in PeHi, lo \in PeLo}

\* One pass of the do-while of get_pe_response: no counter, no delay; with
\* PrAcc set the rest of the function: the response is read and the CPU is
\* told to go on.
pe_poll ==
    /\ At("pe_poll")
    /\ \E ctl \in PrAccReplies :
          LET s1 == neofoxx_xferData(Sess, 32, CONTROL_POLL, 1, 1)
          IN  IF "PRACC" \notin ctl
                THEN /\ ret' = ctl
                     /\ Commit(s1)
                     /\ cont' = cont
                ELSE \E response \in PeResponses :
                       LET s2 == neofoxx_sendCommand(s1, "ETAP_DATA", 1)
                           s3 == neofoxx_xferData(s2, 32, Word(W(0, 0)), 1, 1)
                           s4 == neofoxx_sendCommand(s3, "ETAP_CONTROL", 1)
                           s5 == neofoxx_xferData(s4, 32, CONTROL_RESUME, 0, 1)
                       IN  /\ ret' = response
                           /\ Commit(s5)
                           /\ cont' = Tail(cont)
    /\ KeepFlags
    /\ KeepLoop
    /\ UNCHANGED <<op, args, exited, words_out>>

\* if (response != expected) { fprintf(...); exit(-1); }
response_ok_low_only(response, expected) == response[2] = expected[2]

response_ok_high_only(response, expected) == response[1] = expected[1]

response_ok(response, expected) == response = expected

check_response ==
    /\ At("check_response")
    /\ LET s == IF response_ok(ret, Head(cont)[2]) THEN Sess
                ELSE fatal(Sess, Head(cont)[3])
       IN  Commit(s) /\ Continue(s, Tail(cont))
    /\ KeepFlags
    /\ KeepLoop
    /\ UNCHANGED <<op, args, ret, words_out>>

\* *data++ = the word that was just returned
store ==
    /\ At("store")
    /\ words_out' = words_out + 1
    /\ ret' = <<>>
    /\ Commit(Sess)
    /\ cont' = Tail(cont)
    /\ KeepFlags
    /\ KeepLoop
    /\ UNCHANGED <<op, args, exited>>

\* flash_crc = get_pe_response(a) & 0xffff, compared with the CRC of the
\* caller's data; a mismatch is printed and nothing else.
crc_matches_always(flash_crc, data) == TRUE

crc_matches(flash_crc, data) ==
    flash_crc = calculate_crc(\Hffff, BytesOf(data))

verify_crc ==
    /\ At("verify_crc")
    /\ LET s == IF crc_matches(ret[2], Head(cont)[3]) THEN Sess
                ELSE log(Sess, "checksum failed")
       IN  Commit(s) /\ Continue(s, Tail(cont))
    /\ KeepFlags
    /\ KeepLoop
    /\ UNCHANGED <<op, args, ret, words_out>>

\* The public operation returns to its caller.
Return ==
    /\ At("return")
    /\ op' = "none"
    /\ cont' = <<>>
    /\ ret' = <<>>
    /\ Commit(Sess)
    /\ KeepFlags
    /\ KeepLoop
    /\ UNCHANGED <<args, exited, words_out>>

-----------------------------------------------------------------------------
(* serial_execution *)

\* What a read of the MTAP status returns, as far as serial_execution looks
\* at it.
StatusReplies == SUBSET {"CPS"}

\* if (a->serial_execution_mode) return;
serial_execution_entered_never(mode) == FALSE

serial_execution_entered(mode) == mode # 0

\* The call of serial_execution up to its read of the status: the early
\* return when the flag is set; otherwise the flag is set and the MTAP is
\* selected.
serial_execution ==
    /\ At("serial_execution")
    /\ IF serial_execution_entered(serial_execution_mode)
         THEN /\ Commit(Sess)
              /\ cont' = Tail(cont)
              /\ UNCHANGED <<serial_execution_mode, counter, counterPre,
                             attempts, se_result>>
         ELSE /\ serial_execution_mode' = 1
              /\ counter' = 20
              /\ counterPre' = 0
              /\ attempts' = 0
              /\ se_result' = "running"
              /\ Commit(Do(Sess, << I_sendCommand("TAP_SW_MTAP", 0),
                                    I_setMode("SET_MODE_TAP_RESET", 1),
                                    I_sendCommand("MTAP_COMMAND", 0) >>))
              /\ cont' = << I_se_status >> \o Tail(cont)
    /\ UNCHANGED <<interface, family, way, use_executive, op, args, exited,
                   maxCounter, polls, ret, words_out>>

\* if (!(status & MCHP_STATUS_CPS)) { fprintf; exit(-1); }
serial_execution_cps_ok(status) == "CPS" \in status

\* status = xferData(MTAP_COMMAND_DR_NBITS, MCHP_STATUS, 1, 1) and the check
\* of its CPS bit
se_status ==
    /\ At("se_status")
    /\ \E status \in StatusReplies :
          LET s1 == neofoxx_xferData(Sess, MTAP_COMMAND_DR_NBITS,
                                     Sym("MCHP_STATUS"), 1, 1)
              s2 == IF serial_execution_cps_ok(status) THEN s1
                    ELSE fatal(s1, "CPS bit is SET, please erase MCU first.")
          IN  /\ ret' = status
              /\ Commit(s2)
              /\ Continue(s2, << I_se_attempt >> \o Tail(cont))
    /\ KeepFlags
    /\ KeepLoop
    /\ UNCHANGED <<op, args, words_out>>

MCLR(val) == I_setPins("PIN_MCLR", "PIN_DIR_OUTPUT", val, 1)

\* The body of the outer do-while, up to the poll of the control register.
serial_execution_attempt_release_first(itf, fam) ==
    (IF itf = "INTERFACE_ICSP"
       THEN << I_xferData(MTAP_COMMAND_DR_NBITS, Sym("MCHP_ASSERT_RST"), 1) >>
       ELSE <<>>)
    \o (IF IsJtag(itf) THEN << MCLR("PIN_VAL_LOW"), I_flush >> ELSE <<>>)
    \o << I_sendCommand("TAP_SW_ETAP", 1),
          I_setMode("SET_MODE_TAP_RESET", 1) >>
    \o (IF IsJtag(itf)
          THEN << MCLR("PIN_VAL_HIGH"), I_flush,
                  I_sendCommand("ETAP_EJTAGBOOT", 1) >>
          ELSE << I_sendCommand("ETAP_EJTAGBOOT", 1),
                  I_sendCommand("TAP_SW_MTAP", 1),
                  I_setMode("SET_MODE_TAP_RESET", 1),
                  I_sendCommand("MTAP_COMMAND", 1),
                  I_xferData(MTAP_COMMAND_DR_NBITS, Sym("MCHP_DEASSERT_RST"), 1) >>
               \o (IF IsMX(fam)
                     THEN << I_xferData(MTAP_COMMAND_DR_NBITS,
                                        Sym("MCHP_FLASH_ENABLE"), 1) >>
                     ELSE <<>>)
               \o << I_sendCommand("TAP_SW_ETAP", 1),
                     I_setMode("SET_MODE_TAP_RESET", 1) >>)
    \o << I_mdelay(10),
          I_setMode("SET_MODE_TAP_RESET", 1),
          I_sendCommand("TAP_SW_ETAP", 1),
          I_setMode("SET_MODE_TAP_RESET", 1),
          I_sendCommand("ETAP_CONTROL", 1) >>
serial_execution_attempt(itf, fam) ==
    (IF itf = "INTERFACE_ICSP"
       THEN << I_xferData(MTAP_COMMAND_DR_NBITS, Sym("MCHP_ASSERT_RST"), 1) >>
       ELSE <<>>)
    \o (IF IsJtag(itf) THEN << MCLR("PIN_VAL_LOW"), I_flush >> ELSE <<>>)
    \o << I_sendCommand("TAP_SW_ETAP", 1),
          I_setMode("SET_MODE_TAP_RESET", 1),
          I_sendCommand("ETAP_EJTAGBOOT", 1) >>
    \o (IF IsJtag(itf)
          THEN << MCLR("PIN_VAL_HIGH"), I_flush >>
          ELSE << I_sendCommand("TAP_SW_MTAP", 1),
                  I_setMode("SET_MODE_TAP_RESET", 1),
                  I_sendCommand("MTAP_COMMAND", 1),
                  I_xferData(MTAP_COMMAND_DR_NBITS, Sym("MCHP_DEASSERT_RST"), 1) >>
               \o (IF IsMX(fam)
                     THEN << I_xferData(MTAP_COMMAND_DR_NBITS,
                                        Sym("MCHP_FLASH_ENABLE"), 1) >>
                     ELSE <<>>)
               \o << I_sendCommand("TAP_SW_ETAP", 1),
                     I_setMode("SET_MODE_TAP_RESET", 1) >>)
    \o << I_mdelay(10),
          I_setMode("SET_MODE_TAP_RESET", 1),
          I_sendCommand("TAP_SW_ETAP", 1),
          I_setMode("SET_MODE_TAP_RESET", 1),
          I_sendCommand("ETAP_CONTROL", 1) >>

\* One pass of the outer do-while up to its poll, and counterPre = 11.
se_attempt ==
    /\ At("se_attempt")
    /\ attempts' = attempts + 1
    /\ counterPre' = 11
    /\ LET s == Do(Sess, serial_execution_attempt(interface, family))
       IN  Commit(s) /\ Continue(s, << I_se_poll >> \o Tail(cont))
    /\ KeepFlags
    /\ UNCHANGED <<op, args, counter, maxCounter, polls, se_result, ret,
                   words_out>>

\* do { status = xferData(...) } while (!(status & PROBEN) && counterPre-- > 1)
se_poll ==
    /\ At("se_poll")
    /\ \E status \in ProbEnReplies :
          /\ ret' = status
          /\ Commit(neofoxx_xferData(Sess, 32,
                        Ctl({"PRACC", "PROBEN", "PROBTRAP"}), 1, 1))
          /\ IF "PROBEN" \notin status
               THEN /\ counterPre' = counterPre - 1
                    /\ cont' = IF counterPre > 1 THEN cont
                               ELSE << I_se_after >> \o Tail(cont)
               ELSE /\ counterPre' = counterPre
                    /\ cont' = << I_se_after >> \o Tail(cont)
    /\ KeepFlags
    /\ UNCHANGED <<op, args, exited, counter, maxCounter, attempts, polls,
                   se_result, words_out>>

serial_execution_recover_any_family(itf, fam) ==
    << I_log("Failed to enter serial execution.") >>
    \o (IF IsJtag(itf)
          THEN << I_log("In JTAG mode, trying to recover automatically"),
                  MCLR("PIN_VAL_LOW"), I_flush, I_mdelay(5),
                  I_setMode("SET_MODE_ICSP_SYNC", 1), I_mdelay(5),
                  MCLR("PIN_VAL_HIGH"), I_flush, I_mdelay(5), I_mdelay(100) >>
          ELSE <<>>)
\* What follows a poll loop that left ProbEn clear.
serial_execution_recover(itf, fam) ==
    << I_log("Failed to enter serial execution.") >>
    \o (IF IsJtag(itf)
          THEN (IF IsMX(fam)
                  THEN << I_log("In JTAG mode, trying to recover automatically"),
                          MCLR("PIN_VAL_LOW"), I_flush, I_mdelay(5),
                          I_setMode("SET_MODE_ICSP_SYNC", 1), I_mdelay(5),
                          MCLR("PIN_VAL_HIGH"), I_flush, I_mdelay(5) >>
                  ELSE << I_exit("In JTAG mode, only recovery is through a power-cycle, or reset via ICSP. Quitting.") >>)
               \o << I_mdelay(100) >>
          ELSE <<>>)

\* if (!(status & CONTROL_PROBEN)) { ... }
se_after ==
    /\ At("se_after")
    /\ LET s == IF "PROBEN" \notin ret
                  THEN Do(Sess, serial_execution_recover(interface, family))
                  ELSE Sess
       IN  Commit(s) /\ Continue(s, << I_se_loop >> \o Tail(cont))
    /\ KeepFlags
    /\ KeepLoop
    /\ UNCHANGED <<op, args, ret, words_out>>

\* while (!(status & CONTROL_PROBEN) && counter-- > 1); then the message
\* when counter is 0.
se_loop ==
    /\ At("se_loop")
    /\ IF "PROBEN" \notin ret /\ counter > 1
         THEN /\ counter' = counter - 1
              /\ cont' = << I_se_attempt >> \o Tail(cont)
              /\ Commit(Sess)
              /\ UNCHANGED se_result
         ELSE LET left == IF "PROBEN" \notin ret THEN counter - 1 ELSE counter
              IN  /\ counter' = left
                  /\ Commit(IF left = 0
                              THEN log(Sess, "Couldn't enter serial execution, quitting")
                              ELSE Sess)
                  /\ cont' = << I_se_return >> \o Tail(cont)
                  /\ se_result' = IF "PROBEN" \in ret THEN "entered" ELSE "failed"
    /\ counterPre' = 0
    /\ KeepFlags
    /\ UNCHANGED <<op, args, exited, maxCounter, attempts, polls, ret, words_out>>

\* mdelay(10) and the return of serial_execution; its locals are gone.
se_return ==
    /\ At("se_return")
    /\ Commit(mdelay(Sess, 10))
    /\ cont' = Tail(cont)
    /\ counter' = 0
    /\ attempts' = 0
    /\ KeepFlags
    /\ UNCHANGED <<op, args, exited, counterPre, maxCounter, polls, se_result,
                   ret, words_out>>

-----------------------------------------------------------------------------
(* The public operations, as what they execute. *)

RECURSIVE Flatten(_)
Flatten(seqs) == IF seqs = <<>> THEN <<>> ELSE Head(seqs) \o Flatten(Tail(seqs))

\* addr + n, at 32 bits
AddWord(addr, n) ==
    LET lo == addr[2] + n
    IN  <<(addr[1] + lo \div 65536) % 65536, lo % 65536>>

\* if (WAY_OLD == a->way || workaround)
OldWay(wy, workaround) == wy = "WAY_OLD" \/ workaround # 0
WORKAROUND == I_log("WORKAROUND active")
WAY_NEW_missing == I_log("WAY_NEW not implemented yet")
SlowWrite_goes_on == I_log("slow flash write not implemented yet.")
SlowWrite == I_exit("slow flash write not implemented yet.")

\* One pass of the do-while of neofoxx_read_word.
read_word_once(fam, addr) ==
    IF fam \in {"FAMILY_MX1", "FAMILY_MX3", "FAMILY_MK", "FAMILY_MZ"}
      THEN << I_xferInstruction(W(\H3c13, \Hff20)),
              I_xferInstruction(W(\H3c08, addr[1])),
              I_xferInstruction(W(\H3508, addr[2])),
              I_xferInstruction(W(\H8d09, 0)),
              I_xferInstruction(W(\Hae69, 0)),
              I_xferInstruction(W(0, 0)),
              I_sendCommand("ETAP_FASTDATA", 1),
              I_xferFastData(W(0, 0), 1) >>
      ELSE << I_xferInstruction(W(\HFF20, \H41B3)),
              I_xferInstruction(W(addr[1], \H41A8)),
              I_xferInstruction(W(addr[2], \H5108)),
              I_xferInstruction(W(0, \HFD28)),
              I_xferInstruction(W(0, \HF933)),
              I_xferInstruction(W(\H0c00, \H0c00)),
              I_xferInstruction(W(\H0c00, \H0c00)),
              I_sendCommand("ETAP_FASTDATA", 1),
              I_xferFastData(W(0, 0), 1) >>

\* neofoxx_read_word after its call of serial_execution; workaround = 1.
read_word_body(fam, wy, times, addr) ==
    IF OldWay(wy, 1)
      THEN << WORKAROUND >>
           \o Flatten([i \in 1..(times + 1) |-> read_word_once(fam, addr)])
      ELSE << WAY_NEW_missing >>

\* neofoxx_read_word is called: times is taken from the flag, then
\* serial_execution is called.
neofoxx_read_word ==
    /\ At("neofoxx_read_word")
    /\ LET times == IF serial_execution_mode # 0 THEN 0 ELSE 1
       IN  cont' = << I_serial_execution >>
                   \o read_word_body(family, way, times, Head(cont)[2])
                   \o Tail(cont)
    /\ Commit(Sess)
    /\ KeepFlags
    /\ KeepLoop
    /\ UNCHANGED <<op, args, exited, ret, words_out>>

\* The burst size of the PE's READ.
READ_BURST == 32

\* neofoxx_read_data; workaround = 1.
neofoxx_read_data(wy, pe, addr, nwords) ==
    IF OldWay(wy, 1)
      THEN << WORKAROUND >>
           \o (IF pe = 0
                 THEN Flatten([i \in 1..nwords |->
                         << I_read_word(AddWord(addr, 4 * (i - 1))), I_store >>])
                 ELSE Flatten([b \in 1..((nwords + READ_BURST - 1) \div READ_BURST) |->
                         << I_sendCommand("ETAP_FASTDATA", 1),
                            I_xferFastData(W(PE_READ, READ_BURST), 0),
                            I_xferFastData(AddWord(addr, READ_BURST * 4 * (b - 1)), 0),
                            I_get_pe_response,
                            I_check(W(PE_READ, 0), "bad READ response") >>
                         \o Flatten([i \in 1..READ_BURST |->
                                        << I_get_pe_response, I_store >>])]))
      ELSE << WAY_NEW_missing >>

\* The PE image handed to load_executive.
PeImages == {[i \in 1..MaxPe |-> W(\Hbeef, i)]}

XferInstructions(instructions) ==
    [k \in 1..Len(instructions) |-> I_xferInstruction(instructions[k])]

neofoxx_load_executive_jump_early(fam, wy, pe, nwords, pe_version) ==
    IF OldWay(wy, 1)
      THEN << WORKAROUND >>
        \o (IF fam \in {"FAMILY_MX1", "FAMILY_MX3", "FAMILY_MK", "FAMILY_MZ"}
              THEN XferInstructions(
                       << W(\H3c04, \Hbf88), W(\H3484, \H2000), W(\H3c05, \H001f),
                          W(\H34a5, \H0040), W(\Hac85, 0), W(\H3405, \H0800),
                          W(\Hac85, \H0010), W(\H8c85, \H0040), W(\Hac85, \H0020),
                          W(\Hac85, \H0030), W(\H3c04, \Ha000), W(\H3484, \H0800) >>)
                \o Flatten([i \in 1..(PIC32_PE_LOADER_LEN \div 2) |->
                       XferInstructions(
                           << W(\H3c06, pic32_pe_loader[2 * i - 1]),
                              W(\H34c6, pic32_pe_loader[2 * i]),
                              W(\Hac86, 0), W(\H2484, \H0004) >>)])
                \o XferInstructions(
                       << W(\H3c19, \Ha000), W(\H3739, \H0800), W(\H0320, \H0008),
                          W(0, 0) >>)
                \o << I_sendCommand("TAP_SW_ETAP", 1),
                      I_setMode("SET_MODE_TAP_RESET", 1),
                      I_sendCommand("ETAP_FASTDATA", 1),
                      I_xferFastData(W(\Ha000, \H0900), 0),
                      I_xferFastData(W(0, nwords), 0) >>
              ELSE XferInstructions(<< W(\Ha000, \H41a4), W(\H0200, \H5084) >>)
                \o Flatten([i \in 1..(PIC32_PEMM_LOADER_LEN \div 2) |->
                       XferInstructions(
                           << W(pic32_pemm_loader[2 * i - 1], \H41A6),
                              W(pic32_pemm_loader[2 * i], \H50C6),
                              W(\H6E42, \HEB40) >>)])
                \o XferInstructions(
                       << W(\HA000, \H41B9), W(\H0201, \H5339), W(\H0C00, \H4599),
                          W(\H0C00, \H0C00), W(\H0C00, \H0C00) >>)
                \o << I_sendCommand("TAP_SW_ETAP", 1),
                      I_setMode("SET_MODE_TAP_RESET", 1),
                      I_sendCommand("ETAP_FASTDATA", 1),
                      I_xferFastData(W(\HA000, \H0300), 0),
                      I_xferFastData(W(0, nwords), 0) >>)
        \o [i \in 1..nwords |-> I_xferFastData(pe[i], 0)]
        \o << I_flush, I_mdelay(10),
              I_xferFastData(W(\HDEAD, 0), 0),
              I_xferFastData(W(0, 0), 0),
              I_mdelay(10),
              I_xferFastData(W(PE_EXEC_VERSION, 0), 0),
              I_get_pe_response,
              I_check(W(PE_EXEC_VERSION, pe_version), "bad PE version") >>
      ELSE << WAY_NEW_missing >>
\* neofoxx_load_executive after use_executive = 1 and serial_execution;
\* workaround = 1.
neofoxx_load_executive(fam, wy, pe, nwords, pe_version) ==
    IF OldWay(wy, 1)
      THEN << WORKAROUND >>
        \o (IF fam \in {"FAMILY_MX1", "FAMILY_MX3", "FAMILY_MK", "FAMILY_MZ"}
              THEN XferInstructions(
                       << W(\H3c04, \Hbf88), W(\H3484, \H2000), W(\H3c05, \H001f),
                          W(\H34a5, \H0040), W(\Hac85, 0), W(\H3405, \H0800),
                          W(\Hac85, \H0010), W(\H8c85, \H0040), W(\Hac85, \H0020),
                          W(\Hac85, \H0030), W(\H3c04, \Ha000), W(\H3484, \H0800) >>)
                \o Flatten([i \in 1..(PIC32_PE_LOADER_LEN \div 2) |->
                       XferInstructions(
                           << W(\H3c06, pic32_pe_loader[2 * i - 1]),
                              W(\H34c6, pic32_pe_loader[2 * i]),
                              W(\Hac86, 0), W(\H2484, \H0004) >>)])
                \o XferInstructions(
                       << W(\H3c19, \Ha000), W(\H3739, \H0800), W(\H0320, \H0008),
                          W(0, 0) >>)
                \o << I_sendCommand("TAP_SW_ETAP", 1),
                      I_setMode("SET_MODE_TAP_RESET", 1),
                      I_sendCommand("ETAP_FASTDATA", 1),
                      I_xferFastData(W(\Ha000, \H0900), 0),
                      I_xferFastData(W(0, nwords), 0) >>
              ELSE XferInstructions(<< W(\Ha000, \H41a4), W(\H0200, \H5084) >>)
                \o Flatten([i \in 1..(PIC32_PEMM_LOADER_LEN \div 2) |->
                       XferInstructions(
                           << W(pic32_pemm_loader[2 * i - 1], \H41A6),
                              W(pic32_pemm_loader[2 * i], \H50C6),
                              W(\H6E42, \HEB40) >>)])
                \o XferInstructions(
                       << W(\HA000, \H41B9), W(\H0201, \H5339), W(\H0C00, \H4599),
                          W(\H0C00, \H0C00), W(\H0C00, \H0C00) >>)
                \o << I_sendCommand("TAP_SW_ETAP", 1),
                      I_setMode("SET_MODE_TAP_RESET", 1),
                      I_sendCommand("ETAP_FASTDATA", 1),
                      I_xferFastData(W(\HA000, \H0300), 0),
                      I_xferFastData(W(0, nwords), 0) >>)
        \o [i \in 1..nwords |-> I_xferFastData(pe[i], 0)]
        \o << I_flush, I_mdelay(10),
              I_xferFastData(W(0, 0), 0),
              I_xferFastData(W(\HDEAD, 0), 0),
              I_mdelay(10),
              I_xferFastData(W(PE_EXEC_VERSION, 0), 0),
              I_get_pe_response,
              I_check(W(PE_EXEC_VERSION, pe_version), "bad PE version") >>
      ELSE << WAY_NEW_missing >>

\* neofoxx_program_word; workaround = 1.
neofoxx_program_word(fam, wy, pe, addr, word) ==
    (IF fam = "FAMILY_MM"
       THEN << I_log("Program word is not available on MM family. Quitting") >>
       ELSE <<>>)
    \o (IF pe = 0 THEN << SlowWrite >>
        ELSE IF OldWay(wy, 1)
          THEN << WORKAROUND,
                  I_sendCommand("ETAP_FASTDATA", 1),
                  I_xferFastData(W(PE_WORD_PROGRAM, 2), 0),
                  I_xferFastData(addr, 0),
                  I_xferFastData(word, 0),
                  I_get_pe_response,
                  I_check(W(PE_WORD_PROGRAM, 0), "failed to program word") >>
          ELSE << WAY_NEW_missing >>)

\* neofoxx_program_double_word; workaround = 1.
neofoxx_program_double_word(fam, wy, pe, addr, word0, word1) ==
    (IF fam # "FAMILY_MM"
       THEN << I_log("Program double word is only available on MM family. Quitting") >>
       ELSE <<>>)
    \o (IF pe = 0 THEN << SlowWrite >>
        ELSE IF OldWay(wy, 1)
          THEN << WORKAROUND,
                  I_sendCommand("ETAP_FASTDATA", 1),
                  I_xferFastData(W(PE_DOUBLE_WORD_PGRM, 2), 0),
                  I_xferFastData(addr, 0),
                  I_xferFastData(word0, 0),
                  I_xferFastData(word1, 0),
                  I_get_pe_response,
                  I_check(W(PE_DOUBLE_WORD_PGRM, 0), "failed to program double words") >>
          ELSE << WAY_NEW_missing >>)

\* neofoxx_program_quad_word; workaround = 1.
neofoxx_program_quad_word(fam, wy, pe, addr, word0, word1, word2, word3) ==
    (IF fam # "FAMILY_MK" /\ fam # "FAMILY_MZ"
       THEN << I_log("Program quad word is only available on MK and MZ families. Quitting") >>
       ELSE <<>>)
    \o (IF pe = 0 THEN << SlowWrite >>
        ELSE IF OldWay(wy, 1)
          THEN << WORKAROUND,
                  I_sendCommand("ETAP_FASTDATA", 1),
                  I_xferFastData(W(PE_QUAD_WORD_PGRM, 0), 0),
                  I_xferFastData(addr, 0),
                  I_xferFastData(word0, 0),
                  I_xferFastData(word1, 0),
                  I_xferFastData(word2, 0),
                  I_xferFastData(word3, 0),
                  I_get_pe_response,
                  I_check(W(PE_QUAD_WORD_PGRM, 0), "failed to program quad words") >>
          ELSE << WAY_NEW_missing >>)

neofoxx_program_row_one_packet(wy, pe, addr, data, words_per_row) ==
    IF pe = 0 THEN << SlowWrite >>
    ELSE IF OldWay(wy, 0)
      THEN << I_sendCommand("ETAP_FASTDATA", 1),
              I_xferFastData(W(PE_ROW_PROGRAM, words_per_row), 0),
              I_xferFastData(addr, 0) >>
           \o Flatten([k \in 1..words_per_row |->
                  (IF (k - 1) % 8 = 0 THEN << I_flush >> ELSE <<>>)
                  \o << I_xferFastData(data[k], 0) >>])
           \o << I_flush,
                 I_get_pe_response,
                 I_check(W(PE_ROW_PROGRAM, 0), "failed to program row") >>
      ELSE << WAY_NEW_missing,
              I_sendCommand("ETAP_FASTDATA", 1),
              I_xferFastData_MCU_fast(W(PE_ROW_PROGRAM, words_per_row), 0),
              I_xferFastData_MCU_fast(addr, 0),
              I_flush >>
           \o [k \in 1..words_per_row |-> I_xferFastData_MCU_fast(data[k], 0)]
           \o << I_flush,
                 I_get_pe_response,
                 I_check(W(PE_ROW_PROGRAM, 0), "failed to program row") >>
\* neofoxx_program_row; workaround = 0.
neofoxx_program_row(wy, pe, addr, data, words_per_row) ==
    IF pe = 0 THEN << SlowWrite >>
    ELSE IF OldWay(wy, 0)
      THEN << I_sendCommand("ETAP_FASTDATA", 1),
              I_xferFastData(W(PE_ROW_PROGRAM, words_per_row), 0),
              I_xferFastData(addr, 0) >>
           \o Flatten([k \in 1..words_per_row |->
                  (IF (k - 1) % 8 = 0 THEN << I_flush >> ELSE <<>>)
                  \o << I_xferFastData(data[k], 0) >>])
           \o << I_flush,
                 I_get_pe_response,
                 I_check(W(PE_ROW_PROGRAM, 0), "failed to program row") >>
      ELSE << WAY_NEW_missing,
              I_sendCommand("ETAP_FASTDATA", 1),
              I_xferFastData_MCU_fast(W(PE_ROW_PROGRAM, words_per_row), 0),
              I_xferFastData_MCU_fast(addr, 0),
              I_flush >>
           \o Flatten([k \in 1..words_per_row |->
                  (IF (k - 1) % 4 = 0 THEN << I_flush >> ELSE <<>>)
                  \o << I_xferFastData_MCU_fast(data[k], 0) >>])
           \o << I_flush,
                 I_get_pe_response,
                 I_check(W(PE_ROW_PROGRAM, 0), "failed to program row") >>

\* neofoxx_verify_data; workaround = 1.
neofoxx_verify_data(wy, pe, addr, nwords, data) ==
    IF pe = 0 THEN << I_exit("slow verify not implemented yet.") >>
    ELSE IF OldWay(wy, 1)
      THEN << WORKAROUND,
              I_sendCommand("ETAP_FASTDATA", 1),
              I_xferFastData(W(PE_GET_CRC, 0), 0),
              I_xferFastData(addr, 0),
              I_xferFastData(W(0, nwords * 4), 0),
              I_get_pe_response,
              I_check(W(PE_GET_CRC, 0), "failed to verify"),
              I_get_pe_response,
              I_verify_crc(addr, data) >>
      ELSE << WAY_NEW_missing >>

-----------------------------------------------------------------------------
(* The caller (pic32prog's target layer) calls a public operation of the    *)
(* adapter when none is running.                                            *)

RowData == {[i \in 1..n |-> W(\Hdead, \Hbeef)] : n \in 1..MaxRow}

Call(name, a, body) ==
    /\ ~exited
    /\ session = "returned"
    /\ op = "none"
    /\ op' = name
    /\ args' = a
    /\ cont' = body \o << I_return >>
    /\ words_out' = 0
    /\ emit' = <<>>
    /\ reply_len' = <<>>
    /\ trace' = <<>>
    /\ issued' = <<"none">>
    /\ ret' = <<>>
    /\ target' = Driven(target, CmdsOf(emit))
    /\ KeepFlags
    /\ KeepLoop
    /\ UNCHANGED <<pktVars, queue, exited, session, closes>>

Call_read_word ==
    \E addr \in AddrChoices :
        Call("read_word", <<addr>>, << I_read_word(addr) >>)

Call_read_data ==
    \E addr \in AddrChoices, nwords \in 1..MaxWords :
        Call("read_data", <<addr, nwords>>,
             neofoxx_read_data(way, use_executive, addr, nwords))

Call_load_executive ==
    \E pe \in PeImages, pe_version \in PeVersions :
        Call("load_executive", <<pe, Len(pe), pe_version>>,
             << I_set_use_executive, I_serial_execution >>
             \o neofoxx_load_executive(family, way, pe, Len(pe), pe_version))

Call_program_word ==
    \E addr \in AddrChoices, word \in WordChoices :
        Call("program_word", <<addr, word>>,
             neofoxx_program_word(family, way, use_executive, addr, word))

Call_program_double_word ==
    \E addr \in AddrChoices, word0 \in WordChoices :
        Call("program_double_word", <<addr, word0, W(0, 1)>>,
             neofoxx_program_double_word(family, way, use_executive, addr,
                                         word0, W(0, 1)))

Call_program_quad_word ==
    \E addr \in AddrChoices, word0 \in WordChoices :
        Call("program_quad_word", <<addr, word0, W(0, 1), W(0, 2), W(0, 3)>>,
             neofoxx_program_quad_word(family, way, use_executive, addr,
                                       word0, W(0, 1), W(0, 2), W(0, 3)))

Call_program_row ==
    \E addr \in AddrChoices, data \in RowData :
        Call("program_row", <<addr, data, Len(data)>>,
             neofoxx_program_row(way, use_executive, addr, data, Len(data)))

Call_verify_data ==
    \E addr \in AddrChoices, data \in VerifyData :
        Call("verify_data", <<addr, Len(data), data>>,
             neofoxx_verify_data(way, use_executive, addr, Len(data), data))

\* What the MTAP status shows of CFGRDY and FCBUSY.
ReadyReplies == SUBSET {"CFGRDY", "FCBUSY"}

\* Polls of the status that erase_chip is followed through.
MaxErasePolls == 3

\* !(status & MCHP_STATUS_CFGRDY) || (status & MCHP_STATUS_FCBUSY)
erase_busy_while_ready(status) == "FCBUSY" \in status
erase_busy(status) == "CFGRDY" \notin status \/ "FCBUSY" \in status

\* neofoxx_erase_chip up to its first read of the status.
neofoxx_erase_chip ==
    /\ At("erase_chip")
    /\ Commit(Do(Sess, << I_sendCommand("TAP_SW_MTAP", 1),
                          I_setMode("SET_MODE_TAP_RESET", 1),
                          I_sendCommand("MTAP_COMMAND", 1),
                          I_xferData(MTAP_COMMAND_DR_NBITS, Sym("MCHP_ERASE"), 1),
                          I_xferData(MTAP_COMMAND_DR_NBITS,
                                     Sym("MCHP_DEASSERT_RST"), 1) >>
                       \o (IF IsJtag(interface)
                             THEN << MCLR("PIN_VAL_HIGH") >> ELSE <<>>)))
    /\ cont' = << I_erase_poll, I_setMode("SET_MODE_TAP_RESET", 1),
                  I_mdelay(25) >> \o Tail(cont)
    /\ attempts' = 0
    /\ polls' = 0
    /\ KeepFlags
    /\ UNCHANGED <<op, args, exited, counter, counterPre, maxCounter, ret,
                   words_out, se_result>>

\* One pass of the do-while loop: the read of the status and, while the
\* erase is not finished, the dot and the delay.
erase_poll ==
    /\ At("erase_poll")
    /\ \E status \in ReadyReplies :
          LET s1 == neofoxx_xferData(Sess, MTAP_COMMAND_DR_NBITS,
                                     Sym("MCHP_STATUS"), 1, 1)
          IN  /\ erase_busy(status) => polls < MaxErasePolls
              /\ ret' = status
              /\ attempts' = attempts + 1
              /\ IF erase_busy(status)
                   THEN /\ Commit(mdelay(log(s1, "."), 10))
                        /\ polls' = polls + 1
                        /\ UNCHANGED cont
                   ELSE /\ Commit(s1)
                        /\ cont' = Tail(cont)
                        /\ UNCHANGED polls
    /\ KeepFlags
    /\ UNCHANGED <<op, args, exited, counter, counterPre, maxCounter,
                   words_out, se_result>>

Call_erase_chip == Call("erase_chip", <<>>, << I_erase_chip >>)

\* The sessions adapter_open_neofoxx may return.  The code tells ICSP from
\* JTAG and DEFAULT, MX1 and MX3 from MK and MZ from MM, and looks at the way
\* in program_row only: every interface is taken with a family of each of
\* the three kinds, and every family and both ways occur.
Sessions ==
    { <<"INTERFACE_ICSP", "FAMILY_MX1", "WAY_OLD">>,
      <<"INTERFACE_ICSP", "FAMILY_MK", "WAY_NEW">>,
      <<"INTERFACE_ICSP", "FAMILY_MM", "WAY_OLD">>,
      <<"INTERFACE_JTAG", "FAMILY_MX3", "WAY_NEW">>,
      <<"INTERFACE_JTAG", "FAMILY_MZ", "WAY_OLD">>,
      <<"INTERFACE_JTAG", "FAMILY_MM", "WAY_NEW">>,
      <<"INTERFACE_DEFAULT", "FAMILY_MX1", "WAY_OLD">>,
      <<"INTERFACE_DEFAULT", "FAMILY_MK", "WAY_NEW">>,
      <<"INTERFACE_DEFAULT", "FAMILY_MM", "WAY_OLD">> }

Init ==
    /\ InitTransport
    /\ InitIdle
    /\ target = Opened
    /\ session = "returned"
    /\ \E c \in Sessions :
          /\ interface = c[1]
          /\ family = c[2]
          /\ way = c[3]

Next ==
    \/ Call_read_word
    \/ Call_read_data
    \/ Call_load_executive
    \/ Call_program_word
    \/ Call_program_double_word
    \/ Call_program_quad_word
    \/ Call_program_row
    \/ Call_verify_data
    \/ Step
    \/ SetUseExecutive
    \/ neofoxx_xferFastData_PC_slow
    \/ neofoxx_xferInstruction_PC_slow
    \/ xi_poll
    \/ get_pe_response
    \/ pe_poll
    \/ check_response
    \/ store
    \/ verify_crc
    \/ neofoxx_read_word
    \/ serial_execution
    \/ se_status
    \/ se_attempt
    \/ se_poll
    \/ se_after
    \/ se_loop
    \/ se_return
    \/ Return

Spec == Init /\ [][Next]_vars

-----------------------------------------------------------------------------
(*                     PROPERTIES OF THE COMMAND LEVEL                      *)

HasLog(ev, msg) == \E i \in 1..Len(ev) : ev[i] = <<"log", msg>>

\* The operations that talk to the PE and check its first response, and the
\* opcode each of them requests.
PeOps == {"read_data", "program_word", "program_double_word",
          "program_quad_word", "program_row", "verify_data"}
PeOpcode(o) ==
    CASE o = "read_data"           -> PE_READ
      [] o = "program_word"        -> PE_WORD_PROGRAM
      [] o = "program_double_word" -> PE_DOUBLE_WORD_PGRM
      [] o = "program_quad_word"   -> PE_QUAD_WORD_PGRM
      [] o = "program_row"         -> PE_ROW_PROGRAM
      [] o = "verify_data"         -> PE_GET_CRC

\* C2: in read_data with the PE, program_word, program_double_word,
\* program_quad_word, program_row and verify_data, the first PE response
\* after the request goes on to the rest of the operation only when its high
\* 16 bits equal the opcode that was sent; any response whose high 16 bits
\* differ makes the step that checks it exit.
C2_OpcodeEcho ==
    [][(At("check_response") /\ op \in PeOps) =>
          /\ issued = <<"op", PeOpcode(op)>>
          /\ IF ret[1] = issued[2]
               THEN exited' \/ cont' = Tail(cont)
               ELSE exited' /\ cont' = <<>>]_vars

\* A response with the wrong opcode and the expected low half was rejected.
C2_Witness ==
    /\ exited
    /\ op = "program_word"
    /\ issued = <<"op", PE_WORD_PROGRAM>>
    /\ ret = W(PE_READ, 0)
    /\ HasLog(emit, "failed to program word")

\* C3: against a target that never reports ProbEn, where retry is possible,
\* serial_execution makes exactly 20 outer attempts and then ends in a
\* failure that stops the calling operation.
C3_RetryThenStop ==
    se_result = "failed" =>
        IF At("se_return") THEN attempts = 20 ELSE exited

\* ProbEn was read set by the serial_execution of this session.
ProbEnRead ==
    \/ se_result = "entered"
    \/ /\ se_result = "running"
       /\ Running
       /\ Head(cont)[1] \in {"se_after", "se_loop"}
       /\ "PROBEN" \in ret

\* C4: whenever the serial-execution flag is set, the control register has
\* been read with ProbEn set during serial_execution.
C4_FlagOnlyAfterProbEn == serial_execution_mode = 1 => ProbEnRead

\* C5: once the flag is set, a call of serial_execution returns at once: it
\* queues nothing, sends nothing, delays and prints nothing and changes no
\* field of the session.
C5_StickyNoOp ==
    [][(At("serial_execution") /\ serial_execution_mode # 0) =>
          /\ emit' = <<>>
          /\ cont' = Tail(cont)
          /\ ~exited'
          /\ UNCHANGED sessionVars
          /\ UNCHANGED <<output, input>>]_vars

\* read_word, called with the flag set, is past its call of serial_execution
\* and nothing was done.
C5_Witness ==
    /\ op = "read_word"
    /\ Running
    /\ Head(cont) = WORKAROUND
    /\ serial_execution_mode = 1
    /\ emit = <<>>

\* C6: xferInstruction polls the control register at most 40 times: after 40
\* polls that read ProbEn clear it has exited, with no further poll.
C6_FortyPolls == polls <= 40 /\ (polls = 40 => exited)

\* C7: serial_execution goes on past the status check exactly when CPS is
\* clear in the status; when CPS is set it exits before the first attempt.
C7_ProceedIffCpsClear ==
    /\ (At("se_attempt") /\ attempts = 0) => "CPS" \notin ret
    /\ (exited /\ se_result = "running" /\ attempts = 0) => "CPS" \in ret

\* C8: load_executive returns normally if and only if the PE response read
\* after the version probe equals (PE_EXEC_VERSION << 16) | pe_version; any
\* other reply makes it exit.
C8_VersionGate ==
    /\ []((op = "load_executive" /\ At("return")) =>
              ret = W(PE_EXEC_VERSION, args[3]))
    /\ [][(op = "load_executive" /\ At("check_response")) =>
              IF ret = W(PE_EXEC_VERSION, args[3])
                THEN ~exited' /\ cont' = << I_return >>
                ELSE exited' /\ cont' = <<>>]_vars

\* load_executive is about to return after the expected version reply.
C8_Witness ==
    /\ op = "load_executive"
    /\ At("return")
    /\ ret = W(PE_EXEC_VERSION, args[3])

\* The session's family does not support the running program operation.
Unsupported ==
    \/ op = "program_word" /\ family = "FAMILY_MM"
    \/ op = "program_double_word" /\ family # "FAMILY_MM"
    \/ op = "program_quad_word" /\ family \notin {"FAMILY_MK", "FAMILY_MZ"}

\* C9: a program operation the session's family does not support sends no
\* PE opcode to the target.
C9_UnsupportedSendsNothing == Unsupported => issued[1] # "op"

\* C10: a verify_data whose device CRC differs from the CRC of the caller's
\* data prints one mismatch message and returns normally; the comparison
\* changes no field of the session whether the CRCs match or not, and never
\* exits.
C10_MismatchLogsOnce ==
    [][At("verify_crc") =>
          /\ op = "verify_data"
          /\ ~exited'
          /\ cont' = << I_return >>
          /\ UNCHANGED sessionVars
          /\ emit' = IF ret[2] # calculate_crc(\Hffff, BytesOf(args[3]))
                       THEN << <<"log", "checksum failed">> >>
                       ELSE <<>>]_vars

\* verify_data is about to return after a mismatch.
C10_Witness ==
    /\ op = "verify_data"
    /\ At("return")
    /\ ~exited
    /\ emit = << <<"log", "checksum failed">> >>
    /\ ret[2] # calculate_crc(\Hffff, BytesOf(args[3]))

-----------------------------------------------------------------------------
(* The pure helpers, applied to inputs the callers may hand them:           *)
(* calculate_crc as neofoxx_verify_data calls it, neofoxx_bitReversal as    *)
(* neofoxx_setMode calls it.                                                *)

\* Longest byte sequence handed to calculate_crc, the check string aside.
MaxCrcLen == 3

CrcByteChoices == {0, 1, \H31, \H80, \Hff}
\* "123456789", the customary check input of a CRC
CrcCheckInput == <<\H31, \H32, \H33, \H34, \H35, \H36, \H37, \H38, \H39>>
CrcInputs == SeqsOf(CrcByteChoices, 0, MaxCrcLen) \cup {CrcCheckInput}

ReverseInputs ==
    LET half == {0, 1, \H00ff, \H4850, \H4D43, \H8000, \Hffff}
    IN  {W(hi, lo) : hi \in half, lo \in half}

\* A helper is called and returns; the session is not involved.
PureCall(name, a, result) ==
    /\ op' = name
    /\ args' = a
    /\ ret' = result
    /\ KeepFlags
    /\ KeepLoop
    /\ UNCHANGED <<pktVars, queue, cont, exited, words_out, emit, issued,
                   session, closes, trace, reply_len, target>>

\* data_crc = calculate_crc(0xffff, (unsigned char*) data, nwords * 4)
Call_calculate_crc ==
    \E data \in CrcInputs :
        PureCall("calculate_crc", <<data>>, W(0, calculate_crc(\Hffff, data)))

\* entryCode = neofoxx_bitReversal(entryCode)
Call_bitReversal ==
    \E input_word \in ReverseInputs :
        PureCall("bitReversal", <<input_word>>, neofoxx_bitReversal(input_word))

\* The TAP controller of the target (IEEE 1149.1): the state that follows
\* each state when TCK rises with TMS 0 and with TMS 1.
TapTable ==
    [st \in {"Test-Logic-Reset"} |-> <<"Run-Test/Idle", "Test-Logic-Reset">>]
    @@ [st \in {"Run-Test/Idle"} |-> <<"Run-Test/Idle", "Select-DR-Scan">>]
    @@ [st \in {"Select-DR-Scan"} |-> <<"Capture-DR", "Select-IR-Scan">>]
    @@ [st \in {"Capture-DR"} |-> <<"Shift-DR", "Exit1-DR">>]
    @@ [st \in {"Shift-DR"} |-> <<"Shift-DR", "Exit1-DR">>]
    @@ [st \in {"Exit1-DR"} |-> <<"Pause-DR", "Update-DR">>]
    @@ [st \in {"Pause-DR"} |-> <<"Pause-DR", "Exit2-DR">>]
    @@ [st \in {"Exit2-DR"} |-> <<"Shift-DR", "Update-DR">>]
    @@ [st \in {"Update-DR"} |-> <<"Run-Test/Idle", "Select-DR-Scan">>]
    @@ [st \in {"Select-IR-Scan"} |-> <<"Capture-IR", "Test-Logic-Reset">>]
    @@ [st \in {"Capture-IR"} |-> <<"Shift-IR", "Exit1-IR">>]
    @@ [st \in {"Shift-IR"} |-> <<"Shift-IR", "Exit1-IR">>]
    @@ [st \in {"Exit1-IR"} |-> <<"Pause-IR", "Update-IR">>]
    @@ [st \in {"Pause-IR"} |-> <<"Pause-IR", "Exit2-IR">>]
    @@ [st \in {"Exit2-IR"} |-> <<"Shift-IR", "Update-IR">>]
    @@ [st \in {"Update-IR"} |-> <<"Run-Test/Idle", "Select-DR-Scan">>]
TapStates == DOMAIN TapTable
\* The instruction register holds IDCODE after Test-Logic-Reset, and what
\* was shifted in after Update-IR.
TapInstructions == {"IDCODE", "shifted"}

\* One rise of TCK: the TAP is a pair of the state and the instruction.
TapClock(tap, tms) ==
    LET st == TapTable[tap[1]][tms + 1]
    IN  <<st, IF st = "Test-Logic-Reset" THEN "IDCODE"
              ELSE IF st = "Update-IR" THEN "shifted"
              ELSE tap[2]>>

\* The TMS bits of a SEND without TDI bits, in the order they are sent: the
\* prolog and the epilog, each from its least significant bit.
TmsBits(c) ==
    [i \in 1..c[2] |-> Bit(c[3], i - 1)] \o [i \in 1..c[6] |-> Bit(c[7], i - 1)]

RECURSIVE TapRun(_, _)
TapRun(tap, bits) ==
    IF bits = <<>> THEN tap
    ELSE TapRun(TapClock(tap, Head(bits)), Tail(bits))

\* The TAP after the commands cmds, each a SEND without TDI bits.
RECURSIVE TapAfter(_, _)
TapAfter(tap, cmds) ==
    IF cmds = <<>> THEN tap
    ELSE TapAfter(TapRun(tap, TmsBits(Head(cmds))), Tail(cmds))

\* neofoxx_setMode(a, SET_MODE_TAP_RESET, 1), one or more times in a row,
\* with the TAP anywhere.
MaxResets == 2
Call_setMode ==
    \E st \in TapStates, ir \in TapInstructions, times \in 1..MaxResets :
        LET s == Do(Sess, [i \in 1..times |->
                               I_setMode("SET_MODE_TAP_RESET", 1)])
        IN  /\ op' = "setMode"
            /\ args' = <<st, ir, times>>
            /\ ret' = TapAfter(<<st, ir>>, CmdsOf(s.ev))
            /\ Commit(s)
            /\ KeepFlags
            /\ KeepLoop
            /\ UNCHANGED <<cont, exited, words_out>>

\* The transport fields neofoxx_flush_output is called with: nothing or one
\* command queued, no reply expected or that of a SEND or of COMMAND_GET_INFO,
\* nothing or one word received and consumed before.
FlushInputs ==
    { [queue |-> q, btw |-> IF q = <<>> THEN 0 ELSE 3 + PIN_BYTES, btr |-> r,
       bib |-> b, cur |-> c, ev |-> <<>>, exp |-> <<>>, fatal |-> FALSE] :
         q \in {<<>>, << MCLR("PIN_VAL_LOW") >>},
         r \in {0, ReplySize, GET_INFO_REPLY},
         b \in {0, ReplySize}, c \in {0, ReplySize} }

\* neofoxx_flush_output(a)
Call_flush_output ==
    \E s \in FlushInputs :
        PureCall("flush_output", <<s>>, <<neofoxx_flush_output(s)>>)

\* The codes neofoxx_sendCommand is called with: the ten it knows and two
\* commands of the 8-bit MTAP data register, which it does not.
CommandChoices == MtapCommands \cup EtapCommands \cup {"MCHP_STATUS", "MCHP_ERASE"}

\* neofoxx_sendCommand(a, command, immediate), with nothing or one command
\* queued before and no reply expected.
Call_sendCommand ==
    \E command \in CommandChoices, immediate \in {0, 1} :
        \E s \in {f \in FlushInputs : f.btr = 0} :
            PureCall("sendCommand", <<command, immediate, s>>,
                     <<neofoxx_sendCommand(s, command, immediate)>>)

\* The modes neofoxx_setMode is called with: the three it knows and one it
\* does not.
ModeChoices == {"SET_MODE_TAP_RESET", "SET_MODE_EXIT", "SET_MODE_ICSP_SYNC",
                "SET_MODE_UNKNOWN"}

\* neofoxx_setMode(a, mode, immediate), with nothing or one command queued
\* before and no reply expected, in the interface of the session.
Call_setMode_any ==
    \E mode \in ModeChoices, immediate \in {0, 1} :
        \E s \in {f \in FlushInputs : f.btr = 0} :
            PureCall("setMode_any", <<mode, immediate, s>>,
                     <<neofoxx_setMode(s, mode, immediate)>>)

NextPure ==
    \/ Call_calculate_crc
    \/ Call_bitReversal
    \/ Call_setMode
    \/ Call_flush_output
    \/ Call_sendCommand
    \/ Call_setMode_any

SpecPure == InitPacket /\ [][NextPure]_vars

-----------------------------------------------------------------------------
(* Properties of the pure helpers. *)

\* The bit-by-bit CRC-16: polynomial 0x1021, most significant bit first, no
\* reflection, no final XOR.
RECURSIVE CrcRefBits(_, _)
CrcRefBits(crc, n) ==
    IF n = 0 THEN crc
    ELSE IF crc >= 32768
      THEN CrcRefBits(BitXor((crc * 2) % 65536, \H1021), n - 1)
      ELSE CrcRefBits((crc * 2) % 65536, n - 1)

RECURSIVE CrcRef(_, _)
CrcRef(crc, data) ==
    IF data = <<>> THEN crc
    ELSE CrcRef(CrcRefBits(BitXor(crc, Head(data) * 256), 8), Tail(data))

\* C11: for every byte sequence calculate_crc with initial value 0xFFFF
\* returns the bit-by-bit MSB-first CRC-16 of polynomial 0x1021 (no
\* reflection, no final XOR) of the bytes, a value in 0..0xFFFF.
C11_CrcIsCcitt ==
    op = "calculate_crc" =>
        /\ ret = W(0, CrcRef(\Hffff, args[1]))
        /\ ret[2] \in 0..65535

C11_Witness ==
    op = "calculate_crc" /\ args[1] = CrcCheckInput /\ ret = W(0, \H29B1)

\* Bit i of a 32-bit word kept as <<high, low>>.
Bit32(w, i) == IF i < 16 THEN Bit(w[2], i) ELSE Bit(w[1], i - 16)

\* C16: neofoxx_bitReversal is an involution, and bit i of its result is
\* bit 31-i of its input.
C16_ReversalInvolution ==
    op = "bitReversal" =>
        /\ neofoxx_bitReversal(ret) = args[1]
        /\ \A i \in 0..31 : Bit32(ret, i) = Bit32(args[1], 31 - i)

C16_Witness ==
    op = "bitReversal" /\ args[1] = W(\H4D43, \H4850) /\ ret = W(\H0A12, \HC2B2)

-----------------------------------------------------------------------------
(*                     OPENING AND CLOSING A SESSION                        *)
(* adapter_open_neofoxx and neofoxx_close, against a host that may lack     *)
(* memory or the serial port, an adapter that may send no information and   *)
(* a target whose IDCODE and status replies are chosen nondeterministically.*)

OpenInterfaces == {"INTERFACE_DEFAULT", "INTERFACE_JTAG", "INTERFACE_ICSP",
                   "INTERFACE_OTHER"}
SpeedChoices == {0, 1}
HostChoices == {"nomem", "noport", "ok"}
InfoChoices == {"", "PIC32MX440F256H"}
IdcodeChoices == {W(\H04A0, \H7053), W(0, 0), W(\Hffff, \Hffff), W(\H04A0, \H7153)}

\* neofoxx_get_capabilities up to the reply: COMMAND_GET_INFO, a fixed
\* length read, flush.
GET_INFO_BYTES == 1
get_capabilities_request(s) ==
    neofoxx_flush_output([add_to_packet_cmd(s, <<"GET_INFO">>, GET_INFO_BYTES)
                             EXCEPT !.btr = GET_INFO_REPLY])

\* neofoxx_get_capabilities after the reply: a->bytes_in_buffer = 0
get_capabilities_parsed(s) == [s EXCEPT !.bib = 0]

\* neofoxx_enter_icsp: the reset pulses, the loop that sends the 32 bits
\* of the entry code, the release of the reset.
neofoxx_enter_icsp ==
    << MCLR("PIN_VAL_LOW"),
       I_setPins("PIN_TMS", "PIN_DIR_OUTPUT", "PIN_VAL_LOW", 1),
       I_setPins("PIN_TCK", "PIN_DIR_OUTPUT", "PIN_VAL_LOW", 1),
       I_mdelay(10),
       MCLR("PIN_VAL_HIGH"),
       I_mdelay(10),
       MCLR("PIN_VAL_LOW"),
       I_mdelay(10),
       I_enter_icsp_bit(0),
       I_mdelay(5),
       MCLR("PIN_VAL_HIGH") >>

\* One pass of the loop for (counter=0; counter<32; counter++): the bit on
\* TMS, TCK high, TCK low.
enter_icsp_bit ==
    /\ At("enter_icsp_bit")
    /\ LET c == Head(cont)[2]
           s == Do(Sess, << I_setPins("PIN_TMS", "PIN_DIR_OUTPUT",
                                      IF Bit32(entryCode, c) = 1
                                        THEN "PIN_VAL_HIGH" ELSE "PIN_VAL_LOW", 1),
                            I_setPins("PIN_TCK", "PIN_DIR_OUTPUT", "PIN_VAL_HIGH", 1),
                            I_setPins("PIN_TCK", "PIN_DIR_OUTPUT", "PIN_VAL_LOW", 1) >>)
       IN  /\ Commit(s)
           /\ cont' = IF c + 1 < 32 THEN << I_enter_icsp_bit(c + 1) >> \o Tail(cont)
                      ELSE Tail(cont)
    /\ KeepFlags
    /\ KeepLoop
    /\ UNCHANGED <<op, args, exited, ret, words_out>>

\* The failing paths of adapter_open_neofoxx, each up to its return 0.
OpenNoPort ==
    << I_log("Unable to open serial port"), I_serial_close, I_free >>
OpenNoInfo ==
    << I_log("Unable to get information about adapter"), I_serial_close,
       I_free >>
OpenUnsupported ==
    << I_log("Unsupported itnerface specified"), I_serial_close, I_free >>
OpenNoIdcode ==
    << MCLR("PIN_VAL_HIGH"), I_log("Couldn't read IDCODE, exiting"),
       I_serial_close, I_free >>
OpenInvalidStatus_close_first ==
    << I_log("invalid status"), I_serial_close,
       I_setProgMode("PROG_MODE_TRISTATE", 1), I_free >>
OpenInvalidStatus ==
    << I_log("invalid status"), I_setProgMode("PROG_MODE_TRISTATE", 1),
       I_serial_close, I_free >>

\* adapter_open_neofoxx up to the reply to COMMAND_GET_INFO: calloc,
\* serial_open, neofoxx_get_capabilities.
adapter_open_neofoxx ==
    /\ ~exited
    /\ op = "none"
    /\ session = "none"
    /\ \E itf \in OpenInterfaces, speed \in SpeedChoices, host \in HostChoices :
          LET s == CASE host = "nomem" ->
                          log(Sess, "adapter_open_neofoxx: out of memory")
                     [] host = "noport" -> Do(calloc(Sess), OpenNoPort)
                     [] OTHER -> get_capabilities_request(calloc(Sess))
          IN  /\ Commit(s)
              /\ op' = "adapter_open"
              /\ args' = <<itf, speed>>
              /\ cont' = IF host = "ok"
                           THEN << I_open_capabilities(itf, speed), I_return >>
                           ELSE << I_return >>
    /\ attempts' = 0
    /\ ret' = <<>>
    /\ UNCHANGED <<interface, family, way, use_executive, serial_execution_mode,
                   exited, counter, counterPre, maxCounter, words_out, polls,
                   se_result>>

\* The program mode an interface asks for.
OpenProgMode(itf) ==
    IF itf \in {"INTERFACE_DEFAULT", "INTERFACE_JTAG"} THEN "PROG_MODE_JTAG"
    ELSE "PROG_MODE_ICSP"

\* adapter_open_neofoxx from the capabilities to the IDCODE loop: the check
\* of capabilities_mcu, the interface, the program mode, the way, counter.
open_capabilities ==
    /\ At("open_capabilities")
    /\ \E info \in InfoChoices :
          LET itf   == Head(cont)[2]
              speed == Head(cont)[3]
              s0    == get_capabilities_parsed(Sess)
          IN  IF info = ""
                THEN /\ Commit(Do(s0, OpenNoInfo))
                     /\ cont' = Tail(cont)
                     /\ UNCHANGED <<interface, way, counter>>
              ELSE IF itf \notin {"INTERFACE_DEFAULT", "INTERFACE_JTAG",
                                  "INTERFACE_ICSP"}
                THEN /\ Commit(Do(log(s0, "Found adapter"), OpenUnsupported))
                     /\ interface' = itf
                     /\ cont' = Tail(cont)
                     /\ UNCHANGED <<way, counter>>
              ELSE /\ Commit(Do(log(s0, "Found adapter"),
                                << I_setProgMode(OpenProgMode(itf), 1),
                                   I_log(IF speed # 0
                                           THEN "Using NEW WAY of communicating"
                                           ELSE "Using old way of communicating"),
                                   I_log("Speed selection not implemented") >>))
                   /\ interface' = itf
                   /\ way' = IF speed # 0 THEN "WAY_NEW" ELSE "WAY_OLD"
                   /\ counter' = 11
                   /\ cont' = << I_open_attempt >> \o Tail(cont)
    /\ UNCHANGED <<family, use_executive, serial_execution_mode, op, args,
                   exited, counterPre, maxCounter, ret, words_out, attempts,
                   polls, se_result>>

\* (idcode & 0xfff) == 0x053
IdcodeValid_low_byte(idcode) == idcode[2] % 256 = \H53
IdcodeValid(idcode) == idcode[2] % 4096 = \H053

\* What follows the IDCODE loop when it read a valid IDCODE, up to the read
\* of the status.
OpenActivate(itf) ==
    << I_log("IDCODE") >>
    \o (IF itf \in {"INTERFACE_JTAG", "INTERFACE_DEFAULT"}
          THEN << MCLR("PIN_VAL_LOW"), I_mdelay(10), MCLR("PIN_VAL_HIGH") >>
          ELSE <<>>)
    \o << I_mdelay(10),
          I_sendCommand("TAP_SW_MTAP", 1),
          I_sendCommand("MTAP_COMMAND", 1),
          I_xferData(MTAP_COMMAND_DR_NBITS, Sym("MCHP_FLASH_ENABLE"), 1) >>

\* The top of the do-while loop that reads the IDCODE: what one pass calls
\* up to the read.
open_attempt ==
    /\ At("open_attempt")
    /\ Commit(Sess)
    /\ cont' = (IF interface = "INTERFACE_ICSP" THEN neofoxx_enter_icsp
                ELSE <<>>)
               \o << I_mdelay(5),
                     I_setMode("SET_MODE_TAP_RESET", 1),
                     I_sendCommand("TAP_SW_MTAP", 1),
                     I_setMode("SET_MODE_TAP_RESET", 1),
                     I_sendCommand("MTAP_IDCODE", 1),
                     I_open_idcode >>
               \o Tail(cont)
    /\ KeepFlags
    /\ KeepLoop
    /\ UNCHANGED <<op, args, exited, ret, words_out>>

\* idcode = xferData(32, 0, 1, 1), the loop condition, and the check of
\* counter behind the loop.
open_idcode ==
    /\ At("open_idcode")
    /\ \E idcode \in IdcodeChoices :
          LET s2 == neofoxx_xferData(Sess, 32, Word(W(0, 0)), 1, 1)
              s3 == IF IdcodeValid(idcode) THEN s2
                    ELSE log(s2, "IDCODE not valid, retrying")
              again == ~IdcodeValid(idcode) /\ counter > 1
              left == IF IdcodeValid(idcode) THEN counter ELSE counter - 1
          IN  /\ ret' = idcode
              /\ attempts' = attempts + 1
              /\ counter' = left
              /\ IF again
                   THEN /\ Commit(s3)
                        /\ cont' = << I_open_attempt >> \o Tail(cont)
                   ELSE IF left = 0
                     THEN /\ Commit(Do(s3, OpenNoIdcode))
                          /\ cont' = Tail(cont)
                   ELSE /\ Commit(s3)
                        /\ cont' = OpenActivate(interface)
                                   \o << I_open_status(idcode) >> \o Tail(cont)
    /\ KeepFlags
    /\ UNCHANGED <<op, args, exited, counterPre, maxCounter, words_out, polls,
                   se_result>>

\* (status & (MCHP_STATUS_CFGRDY | MCHP_STATUS_FCBUSY)) == MCHP_STATUS_CFGRDY
OpenStatusReady(status) ==
    status \cap {"CFGRDY", "FCBUSY"} = {"CFGRDY"}

\* The read of the status, its check, and the return of the session.
open_status ==
    /\ At("open_status")
    /\ \E status \in ReadyReplies :
          LET s1 == neofoxx_xferData(Sess, MTAP_COMMAND_DR_NBITS,
                                     Sym("MCHP_STATUS"), 1, 1)
              s2 == IF OpenStatusReady(status)
                      THEN return_session(log(s1, "Adapter"))
                      ELSE Do(s1, OpenInvalidStatus)
          IN  /\ ret' = status
              /\ Commit(s2)
              /\ cont' = Tail(cont)
    /\ KeepFlags
    /\ KeepLoop
    /\ UNCHANGED <<op, args, exited, words_out>>

\* neofoxx_close
neofoxx_close_early ==
    << I_sendCommand("TAP_SW_ETAP", 1),
       I_setMode("SET_MODE_TAP_RESET", 1),
       I_mdelay(10),
       MCLR("PIN_VAL_LOW"),
       I_mdelay(100),
       I_serial_close,
       MCLR("PIN_VAL_HIGH"),
       I_free >>
neofoxx_close_in_reset ==
    << I_sendCommand("TAP_SW_ETAP", 1),
       I_setMode("SET_MODE_TAP_RESET", 1),
       I_mdelay(10),
       MCLR("PIN_VAL_LOW"),
       I_mdelay(100),
       I_serial_close,
       I_free >>
neofoxx_close ==
    << I_sendCommand("TAP_SW_ETAP", 1),
       I_setMode("SET_MODE_TAP_RESET", 1),
       I_mdelay(10),
       MCLR("PIN_VAL_LOW"),
       I_mdelay(100),
       MCLR("PIN_VAL_HIGH"),
       I_serial_close,
       I_free >>

Call_close == Call("close", <<>>, neofoxx_close)

InitLife ==
    /\ InitTransport
    /\ InitIdle
    /\ target = NoTarget
    /\ session = "none"
    /\ interface = "INTERFACE_DEFAULT"
    /\ family = "FAMILY_MX1"
    /\ way = "WAY_OLD"

NextLife ==
    \/ adapter_open_neofoxx
    \/ open_capabilities
    \/ open_attempt
    \/ enter_icsp_bit
    \/ open_idcode
    \/ open_status
    \/ Call_close
    \/ Step
    \/ Return

SpecLife == InitLife /\ [][NextLife]_vars

-----------------------------------------------------------------------------
(*                 PROPERTIES OF OPENING AND CLOSING                        *)

\* The low 12 bits of a 32-bit word.
Low12(w) == w[2] % 4096
\* ev has the diagnostic msg.
Logged(ev, msg) == \E i \in 1..Len(ev) : ev[i] = <<"log", msg>>
\* No packet of ev was sent after a serial_close of ev.
NoPktAfterClose(ev) ==
    \A i \in 1..Len(ev) : \A j \in 1..Len(ev) :
        ev[i][1] = "serial_close" /\ i < j => ev[j][1] # "pkt"

\* C12: adapter_open returns a session only in the step that read an MTAP
\* status with CFGRDY set and FCBUSY clear, after an IDCODE read whose low 12
\* bits are 0x053, which was one of at most 11 reads; the loop stops at the
\* first such read; when the 11th read is invalid as well, or the status is
\* not of that form, the session is released and none is returned.
C12_OpenOnlyWhenValid ==
    /\ [](attempts <= 11)
    /\ [][session' = "returned" /\ session # "returned"
             => /\ At("open_status")
                /\ "CFGRDY" \in ret' /\ "FCBUSY" \notin ret'
                /\ Low12(Head(cont)[2]) = \H053
                /\ attempts \in 1..11]_vars
    /\ [][At("open_idcode")
             => /\ attempts' = attempts + 1
                /\ Low12(ret') = \H053
                     => /\ cont'[Len(OpenActivate(interface)) + 1]
                               = I_open_status(ret')
                        /\ session' = "allocated"
                /\ Low12(ret') # \H053 /\ attempts' < 11
                     => cont'[1] = I_open_attempt
                /\ Low12(ret') # \H053 /\ attempts' = 11
                     => session' = "released" /\ cont' = << I_return >>]_vars
    /\ [][At("open_status") /\ ~("CFGRDY" \in ret' /\ "FCBUSY" \notin ret')
             => session' = "released" /\ cont' = << I_return >>]_vars
    /\ [][session = "released" => session' = "released"]_vars

C12_Witness ==
    /\ op = "adapter_open"
    /\ session = "returned"
    /\ attempts = 11
    /\ ret = {"CFGRDY"}

\* The diagnostics of the failing paths of adapter_open that follow the
\* allocation of the session.
OpenFailures ==
    { "Unable to open serial port", "Unable to get information about adapter",
      "Unsupported itnerface specified", "Couldn't read IDCODE, exiting",
      "invalid status" }

\* C13: on each failing path of adapter_open (serial port not opened, no
\* capability information, unsupported interface, IDCODE retries exhausted,
\* invalid status) serial_close has been called exactly once, the session is
\* released and is not returned afterwards, and no packet is sent after the
\* call of serial_close.
C13_OpenFailureClosesOnce ==
    /\ [](op = "adapter_open" /\ (\E m \in OpenFailures : Logged(emit, m))
            => /\ closes = 1
               /\ session = "released"
               /\ CountOf(emit, "serial_close") = 1
               /\ NoPktAfterClose(emit)
               /\ cont = << I_return >>)
    /\ [](op = "adapter_open" /\ session = "released" => closes = 1)
    /\ [][op = "adapter_open" /\ closes >= 1
             => /\ CountOf(emit', "pkt") = 0
                /\ closes' = closes
                /\ session' = "released"]_vars

C13_Witness ==
    /\ op = "adapter_open"
    /\ Logged(emit, "invalid status")
    /\ CountOf(emit, "pkt") = 2
    /\ closes = 1
    /\ session = "released"

\* The packets and the calls of serial_close of ev, in order.
Traffic(ev) == SelectSeq(ev, LAMBDA e : e[1] \in {"pkt", "serial_close"})

\* C17: close sends, each in a packet of its own and in this order, the
\* selection of TAP_SW_ETAP, the TAP reset, MCLR low and MCLR high, and calls
\* serial_close only after the last of them; nothing is sent afterwards.
C17_CloseOrder ==
    /\ [](op = "close" /\ emit # <<>>
            => /\ Traffic(emit) =
                    << <<"pkt", << Send(4, 3, 5, Sym("TAP_SW_ETAP"), 2, 1, 0) >> >>,
                       <<"pkt", << Send(6, 31, 0, NoTdi, 0, 0, 0) >> >>,
                       <<"pkt", << Pin("PIN_MCLR", "PIN_SET_OUTPUT_LOW") >> >>,
                       <<"pkt", << Pin("PIN_MCLR", "PIN_SET_OUTPUT_HIGH") >> >>,
                       <<"serial_close">> >>
               /\ closes = 1
               /\ session = "released"
               /\ queue = <<>>)
    /\ [][op = "close" /\ closes >= 1 => CountOf(emit', "pkt") = 0]_vars

C17_Witness ==
    /\ op = "close"
    /\ closes = 1
    /\ session = "released"
    /\ CountOf(emit, "pkt") = 4

-----------------------------------------------------------------------------
(*                        PROPERTIES OF erase_chip                          *)

NextErase ==
    \/ Call_erase_chip
    \/ neofoxx_erase_chip
    \/ erase_poll
    \/ Step
    \/ Return

\* erase_chip on an open session.
SpecErase == Init /\ [][NextErase]_vars

\* C14: erase_chip reads the MTAP status until a reply has CFGRDY set and
\* FCBUSY clear: a reply that is not ready is followed by exactly one delay
\* of 10 ms and another read, a ready reply ends the loop without a delay, so
\* that k replies that are not ready make k + 1 reads and k delays; the TAP
\* reset follows and the operation returns: the loop ends in the very step
\* in which a ready reply arrives, and what follows it reads nothing more.
C14_ErasePolls ==
    /\ [](op = "erase_chip" /\ At("erase_poll") => attempts = polls)
    /\ [](op = "erase_chip" /\ (At("setMode") \/ At("return"))
            => /\ attempts = polls + 1
               /\ "CFGRDY" \in ret /\ "FCBUSY" \notin ret)
    /\ [][At("erase_poll")
             => /\ attempts' = attempts + 1
                /\ CmdsOf(emit') = << Send(3, 1, 8, Sym("MCHP_STATUS"), 2, 1, 1) >>
                /\ IF "CFGRDY" \in ret' /\ "FCBUSY" \notin ret'
                     THEN /\ polls' = polls
                          /\ CountOf(emit', "mdelay") = 0
                          /\ cont' = << I_setMode("SET_MODE_TAP_RESET", 1),
                                        I_mdelay(25), I_return >>
                     ELSE /\ polls' = polls + 1
                          /\ SelectSeq(emit', LAMBDA e : e[1] = "mdelay")
                                = << <<"mdelay", 10>> >>
                          /\ cont' = cont]_vars
    /\ [][op = "erase_chip" /\ At("setMode")
             => /\ emit' = << <<"pkt", << Send(6, 31, 0, NoTdi, 0, 0, 0) >> >>,
                              <<"mdelay", 25>> >>
                /\ cont' = << I_return >>]_vars
    /\ [][op = "erase_chip" /\ At("return") => op' = "none"]_vars

C14_Witness ==
    /\ op = "erase_chip"
    /\ At("return")
    /\ attempts = 3
    /\ polls = 2
    /\ ret = {"CFGRDY"}

-----------------------------------------------------------------------------
(*                         PROPERTIES OF THE TAP RESET                      *)

\* C15: setMode(TAP_RESET) sends one SEND with 6 prolog bits, no TDI bits and
\* no epilog bits whose TMS bits are 1,1,1,1,1,0 in the order they are sent;
\* from each of the 16 states of the TAP they lead to Run-Test/Idle with
\* IDCODE selected, and a second TAP_RESET leaves the TAP and the fields of
\* the session as the first left them.
C15_TapResetIdempotent ==
    op = "setMode"
      => /\ \A i \in 1..Len(emit) :
               /\ emit[i] = <<"pkt", << Send(6, 31, 0, NoTdi, 0, 0, 0) >> >>
               /\ TmsBits(emit[i][2][1]) = <<1, 1, 1, 1, 1, 0>>
         /\ Len(emit) = args[3]
         /\ ret = <<"Run-Test/Idle", "IDCODE">>
         /\ TapAfter(ret, CmdsOf(emit)) = ret
         /\ queue = <<>>
         /\ bytes_to_write = 0
         /\ bytes_to_read = 0
         /\ bytes_in_buffer = 0
         /\ current_pos_input = 0

C15_Witness ==
    /\ op = "setMode"
    /\ args = <<"Shift-IR", "shifted", 2>>
    /\ ret = <<"Run-Test/Idle", "IDCODE">>
    /\ Len(emit) = 2

-----------------------------------------------------------------------------
(*          PROPERTIES OF THE OPERATIONS WITHOUT AN EXECUTIVE               *)

\* The number a 32-bit word stands for.
Val(w) == w[1] * 65536 + w[2]

PeOnlyOps == {"program_word", "program_double_word", "program_quad_word",
              "program_row", "verify_data"}

\* C18: program_word, program_double_word, program_quad_word, program_row and
\* verify_data called with use_executive clear exit in their first step and
\* neither queue nor send anything; read_data with use_executive clear shifts
\* nothing but zero words through FASTDATA, with the read flag, and calls
\* read_word for word i at addr + 4 * i, for each of its nwords words.
C18_WithoutExecutive ==
    /\ [](op \in PeOnlyOps /\ use_executive = 0
            => /\ CountOf(emit, "pkt") = 0
               /\ issued = <<"none">>
               /\ exited \/ cont # <<>>)
    /\ [][use_executive = 0 /\ Running /\ op \in PeOnlyOps
             => /\ exited'
                /\ queue' = queue
                /\ bytes_to_write' = bytes_to_write
                /\ CountOf(emit', "pkt") = 0]_vars
    /\ [][op = "none" /\ op' \in PeOnlyOps
             => queue' = queue /\ bytes_to_write' = bytes_to_write]_vars
    /\ [](op = "read_data" /\ use_executive = 0
            => /\ \A i \in 1..Len(CmdsOf(emit)) :
                     IsFast(CmdsOf(emit)[i])
                        => /\ CmdsOf(emit)[i][5] = Shl1(W(0, 0))
                           /\ CmdsOf(emit)[i][8] = 1
               /\ At("neofoxx_read_word")
                     => /\ words_out < args[2]
                        /\ Val(Head(cont)[2]) = Val(args[1]) + 4 * words_out
               /\ At("return") => words_out = args[2])

C18_Witness ==
    /\ op = "read_data"
    /\ use_executive = 0
    /\ At("neofoxx_read_word")
    /\ words_out = 1
    /\ Val(Head(cont)[2]) = Val(args[1]) + 4

C18_WitnessExit ==
    /\ op = "program_row"
    /\ use_executive = 0
    /\ exited

-----------------------------------------------------------------------------
(*                  PROPERTIES OF THE ORDER OF COMMANDS                     *)

\* The selection of a command register, as sendCommand sends it.
Select(name) == Send(4, 3, 5, Sym(name), 2, 1, 0)

\* C19: xferInstruction selects ETAP_CONTROL and polls the control register,
\* 32 bits with the read flag, each poll in a packet of its own; a poll that
\* returns ProbEn clear is followed by nothing but the next poll or the exit;
\* the poll that returns ProbEn set is followed, in this order, by the
\* selection of ETAP_DATA, the instruction on 32 bits without the read flag,
\* the selection of ETAP_CONTROL and ProbEn|ProbTrap on 32 bits without the
\* read flag, and the function returns.
C19_InjectionOrder ==
    /\ [][At("xferInstruction")
             => /\ CmdsOf(emit') = << Select("ETAP_CONTROL") >>
                /\ cont' = << I_xi_poll(Head(cont)[2]) >> \o Tail(cont)]_vars
    /\ [][At("xi_poll")
             => LET poll == Send(3, 1, 32,
                                 Ctl({"PRACC", "PROBEN", "PROBTRAP", "EJTAGBRK"}),
                                 2, 1, 1)
                    sent == SelectSeq(emit', LAMBDA e : e[1] = "pkt")
                IN  IF "PROBEN" \in ret'
                      THEN /\ sent =
                                << <<"pkt", << poll >> >>,
                                   <<"pkt", << Select("ETAP_DATA") >> >>,
                                   <<"pkt", << Send(3, 1, 32, Word(Head(cont)[2]),
                                                    2, 1, 0) >> >>,
                                   <<"pkt", << Select("ETAP_CONTROL") >> >>,
                                   <<"pkt", << Send(3, 1, 32,
                                                    Ctl({"PROBEN", "PROBTRAP"}),
                                                    2, 1, 0) >> >> >>
                           /\ cont' = Tail(cont)
                      ELSE /\ sent = << <<"pkt", << poll >> >> >>
                           /\ exited' \/ cont' = cont]_vars

C19_Witness ==
    /\ op = "read_word"
    /\ Len(CmdsOf(emit)) = 5
    /\ CmdsOf(emit)[2] = Select("ETAP_DATA")
    /\ CmdsOf(emit)[3][5][1] = "word"
    /\ ret = {"PROBEN"}

\* What a command is, for the order of an attempt: the pin and its mode, the
\* TAP reset among the SENDs without TDI, or the register (the instruction
\* register takes 5 bits, the MTAP data register 8) and the name of what is
\* shifted in.
CmdName(c) ==
    IF c[1] = "PIN" THEN <<c[2], c[3]>>
    ELSE IF c[5] = NoTdi
      THEN <<"TMS", IF c[2] = 6 /\ c[3] = 31 /\ c[6] = 0 THEN "reset" ELSE "other">>
    ELSE <<IF c[4] = 5 THEN "IR" ELSE IF c[4] = 8 THEN "DR8" ELSE "DR",
           IF c[5][1] = "sym" THEN c[5][2] ELSE "value">>

\* The events of ev before its first delay.
BeforeDelay(ev) ==
    LET first == CHOOSE i \in 1..(Len(ev) + 1) :
                    /\ i = Len(ev) + 1 \/ ev[i][1] = "mdelay"
                    /\ \A j \in 1..(i - 1) : ev[j][1] # "mdelay"
    IN  SubSeq(ev, 1, first - 1)

\* C20: an outer attempt of serial_execution sends, each in a packet of its
\* own and up to its delay, with JTAG or the default interface: MCLR low,
\* TAP_SW_ETAP, the TAP reset, ETAP_EJTAGBOOT, MCLR high; with ICSP:
\* MCHP_ASSERT_RST, TAP_SW_ETAP, the TAP reset, ETAP_EJTAGBOOT, TAP_SW_MTAP,
\* the TAP reset, MTAP_COMMAND, MCHP_DEASSERT_RST, MCHP_FLASH_ENABLE for MX1
\* and MX3 only, TAP_SW_ETAP, the TAP reset.
C20_ResetAroundBoot ==
    [][At("se_attempt")
          => LET sent  == BeforeDelay(emit')
                 reset == <<"TMS", "reset">>
             IN  /\ \A i \in 1..Len(sent) : Len(sent[i][2]) = 1
                 /\ [i \in 1..Len(sent) |-> CmdName(sent[i][2][1])] =
                      IF interface \in {"INTERFACE_JTAG", "INTERFACE_DEFAULT"}
                        THEN << <<"PIN_MCLR", "PIN_SET_OUTPUT_LOW">>,
                                <<"IR", "TAP_SW_ETAP">>, reset,
                                <<"IR", "ETAP_EJTAGBOOT">>,
                                <<"PIN_MCLR", "PIN_SET_OUTPUT_HIGH">> >>
                        ELSE << <<"DR8", "MCHP_ASSERT_RST">>,
                                <<"IR", "TAP_SW_ETAP">>, reset,
                                <<"IR", "ETAP_EJTAGBOOT">>,
                                <<"IR", "TAP_SW_MTAP">>, reset,
                                <<"IR", "MTAP_COMMAND">>,
                                <<"DR8", "MCHP_DEASSERT_RST">> >>
                             \o (IF family \in {"FAMILY_MX1", "FAMILY_MX3"}
                                   THEN << <<"DR8", "MCHP_FLASH_ENABLE">> >>
                                   ELSE <<>>)
                             \o << <<"IR", "TAP_SW_ETAP">>, reset >>]_vars

C20_Witness ==
    /\ At("se_poll")
    /\ interface = "INTERFACE_ICSP"
    /\ family = "FAMILY_MX1"
    /\ attempts = 2
    /\ counterPre = 11
    /\ Len(BeforeDelay(emit)) = 11

-----------------------------------------------------------------------------
(*              PROPERTIES OF THE RECOVERY OF serial_execution              *)

\* The packets of ev, in order.
Pkts(ev) == SelectSeq(ev, LAMBDA e : e[1] = "pkt")

\* The ICSP-sync key on the TMS line: the bytes of the bit-reversed "MCHP",
\* lowest first, 8 TMS bits each.
SyncKey ==
    << Send(8, \HB2, 0, NoTdi, 0, 0, 0), Send(8, \HC2, 0, NoTdi, 0, 0, 0),
       Send(8, \H12, 0, NoTdi, 0, 0, 0), Send(8, \H0A, 0, NoTdi, 0, 0, 0) >>

\* C21: when the polls of an outer attempt of serial_execution leave ProbEn
\* clear with JTAG or the default interface, family MX1 or MX3 sends MCLR
\* low, the ICSP-sync key and MCLR high and goes on to the loop condition,
\* which starts another attempt while attempts are left; every other family
\* exits there, in its first attempt, and sends nothing, the key included.
C21_RecoverOrQuit ==
    /\ [][At("se_after") /\ "PROBEN" \notin ret /\ IsJtag(interface)
             => IF family \in {"FAMILY_MX1", "FAMILY_MX3"}
                  THEN /\ Pkts(emit') =
                            << <<"pkt", << Pin("PIN_MCLR", "PIN_SET_OUTPUT_LOW") >> >>,
                               <<"pkt", SyncKey>>,
                               <<"pkt", << Pin("PIN_MCLR", "PIN_SET_OUTPUT_HIGH") >> >> >>
                       /\ ~exited'
                       /\ cont' = << I_se_loop >> \o Tail(cont)
                  ELSE /\ exited'
                       /\ Pkts(emit') = <<>>
                       /\ attempts = 1]_vars
    /\ [][At("se_loop") /\ "PROBEN" \notin ret /\ attempts < 20
             => cont' = << I_se_attempt >> \o Tail(cont)]_vars
    /\ [](family \notin {"FAMILY_MX1", "FAMILY_MX3"} /\ IsJtag(interface)
            => attempts <= 1)

C21_Witness ==
    /\ At("se_poll")
    /\ IsJtag(interface)
    /\ family = "FAMILY_MX3"
    /\ attempts = 2

C21_WitnessQuit ==
    /\ exited
    /\ family = "FAMILY_MZ"
    /\ interface = "INTERFACE_JTAG"
    /\ HasLog(emit, "In JTAG mode, only recovery is through a power-cycle, or reset via ICSP. Quitting.")

-----------------------------------------------------------------------------
(*                     PROPERTIES OF load_executive                         *)

\* A write of an instruction word to the ETAP data register.
IsInstr(c) == IsSend(c) /\ c[5][1] = "word" /\ c[8] = 0

\* What one injected instruction leaves in the trace: its polls are left out.
Injected(c) ==
    << Select("ETAP_CONTROL"), Select("ETAP_DATA"), c, Select("ETAP_CONTROL"),
       Send(3, 1, 32, Ctl({"PROBEN", "PROBTRAP"}), 2, 1, 0) >>

\* Where tr has its first FASTDATA transfer; past its end when it has none.
FirstFast(tr) ==
    CHOOSE i \in 1..(Len(tr) + 1) :
        /\ i = Len(tr) + 1 \/ IsFast(tr[i])
        /\ \A j \in 1..(i - 1) : ~IsFast(tr[j])

\* C22: when load_executive returns, what it has sent since serial_execution
\* is: the injections of the instructions of its first stage, all of them
\* before anything else; the selection of TAP_SW_ETAP, the TAP reset and the
\* selection of ETAP_FASTDATA; n + 5 FASTDATA transfers with the destination
\* address, n, the n words of the image in their order, 0, 0xDEAD0000 and
\* PE_EXEC_VERSION << 16; and the commands of one get_pe_response.
C22_LoadOrder ==
    op = "load_executive" /\ At("return")
      => LET n      == args[2]
             f      == FirstFast(trace)
             instrs == SelectSeq(SubSeq(trace, 1, f - 4), IsInstr)
             mm     == family = "FAMILY_MM"
             words  == << IF mm THEN W(\HA000, \H0300) ELSE W(\HA000, \H0900),
                          W(0, n) >>
                       \o args[1]
                       \o << W(0, 0), W(\HDEAD, 0), W(PE_EXEC_VERSION, 0) >>
         IN  /\ n = Len(args[1])
             /\ f > 3
             /\ Len(trace) = f + n + 5 + 3
             /\ SubSeq(trace, 1, f - 4)
                   = Flatten([k \in 1..Len(instrs) |-> Injected(instrs[k])])
             /\ Len(instrs) = IF mm THEN 2 + 3 * (PIC32_PEMM_LOADER_LEN \div 2) + 5
                              ELSE 12 + 4 * (PIC32_PE_LOADER_LEN \div 2) + 4
             /\ instrs[1] = Send(3, 1, 32,
                                 Word(IF mm THEN W(\Ha000, \H41a4)
                                      ELSE W(\H3c04, \Hbf88)), 2, 1, 0)
             /\ instrs[Len(instrs)] = Send(3, 1, 32,
                                 Word(IF mm THEN W(\H0C00, \H0C00)
                                      ELSE W(0, 0)), 2, 1, 0)
             /\ SubSeq(trace, f - 3, f - 1)
                   = << Select("TAP_SW_ETAP"), Send(6, 31, 0, NoTdi, 0, 0, 0),
                        Select("ETAP_FASTDATA") >>
             /\ SubSeq(trace, f, f + n + 4)
                   = [i \in 1..(n + 5) |-> Send(3, 1, 33, Shl1(words[i]), 2, 1, 1)]
             /\ SubSeq(trace, f + n + 5, Len(trace))
                   = << Select("ETAP_CONTROL"), Select("ETAP_DATA"),
                        Select("ETAP_CONTROL"),
                        Send(3, 1, 32, Ctl({"PROBEN", "PROBTRAP"}), 2, 1, 0) >>

C22_Witness ==
    /\ op = "load_executive"
    /\ At("return")
    /\ family = "FAMILY_MM"
    /\ args[2] = MaxPe
    /\ Len(trace) > MaxPe + 5

C22_WitnessMX ==
    /\ op = "load_executive"
    /\ At("return")
    /\ family = "FAMILY_MK"
    /\ FirstFast(trace) <= Len(trace)

-----------------------------------------------------------------------------
(* A whole session: opening the adapter, the operations on the target and   *)
(* the close, or the operations alone on a session of any kind.             *)

InitSession == Init \/ InitLife

NextSession == NextLife \/ Next

SpecSession == InitSession /\ [][NextSession]_vars

\* The bytes of reply a queued command asks for: neofoxx_send with the read
\* flag, neofoxx_get_capabilities, every other command none.
ReplyOf(c) ==
    IF IsSend(c) THEN (IF c[8] = 1 THEN ReplySize ELSE 0)
    ELSE IF c = <<"GET_INFO">> THEN GET_INFO_REPLY
    ELSE 0

RECURSIVE ReplySum(_)
ReplySum(cmds) ==
    IF cmds = <<>> THEN 0 ELSE ReplyOf(Head(cmds)) + ReplySum(Tail(cmds))

\* C27: at every flush that sends a packet, a->bytes_to_read is the sum over
\* the commands of the packet of 8 for a SEND with the read flag, 128 for
\* GET_INFO and 0 for any other command.
C27_ExpectedIsSum ==
    /\ Len(reply_len) = Len(Pkts(emit))
    /\ \A i \in 1..Len(reply_len) : reply_len[i] = ReplySum(Pkts(emit)[i][2])

C27_Witness ==
    \E i \in 1..Len(reply_len) :
        /\ reply_len[i] = ReplySize
        /\ Len(Pkts(emit)[i][2]) > 1
        /\ \E k \in 1..Len(Pkts(emit)[i][2]) :
              IsSend(Pkts(emit)[i][2][k]) /\ Pkts(emit)[i][2][k][8] = 0

C27_WitnessInfo ==
    \E i \in 1..Len(reply_len) :
        reply_len[i] = GET_INFO_REPLY /\ Pkts(emit)[i][2] = << <<"GET_INFO">> >>

-----------------------------------------------------------------------------
(*                     PROPERTIES OF THE TRANSPORT                          *)

\* C23: neofoxx_flush_output called with nothing in the outbound buffer hands
\* nothing to the transport, reads nothing, and returns with every field of
\* the session as it was, the expected-reply length included when it is not
\* zero.
C23_EmptyFlushNoOp ==
    op = "flush_output" /\ args[1].btw <= 0
      => /\ ret[1].ev = <<>>
         /\ ret[1].exp = <<>>
         /\ ret[1].btw = args[1].btw
         /\ ret[1].btr = args[1].btr
         /\ ret[1].bib = args[1].bib
         /\ ret[1].cur = args[1].cur
         /\ ret[1].queue = args[1].queue
         /\ ~ret[1].fatal

C23_Witness ==
    /\ op = "flush_output"
    /\ args[1].btw = 0
    /\ args[1].btr = ReplySize
    /\ args[1].cur = ReplySize
    /\ ret[1].btr = ReplySize

\* A step that ends a call of neofoxx_flush_output that has sent a packet.
FlushReturns == ppc # "idle" /\ ppc' = "idle"

\* C24 as claimed: after every flush that sent a packet, a reply expected or
\* not, the outbound buffer is empty, the expected-reply length is 0 and the
\* read cursor is 0.
C24_AllReset ==
    [][FlushReturns => /\ bytes_to_write' = 0
                       /\ bytes_to_read' = 0
                       /\ current_pos_input' = 0]_vars

\* C24: after every flush that sent a packet the outbound buffer is empty and
\* the expected-reply length is 0; the read cursor is 0 after a flush that
\* read a reply, and no other step of a flush changes it.
C24_ResetAfterFlush ==
    /\ [][FlushReturns => bytes_to_write' = 0 /\ bytes_to_read' = 0]_vars
    /\ [][ppc = "reading" /\ ppc' = "idle" => current_pos_input' = 0]_vars
    /\ [][(ppc # "idle" \/ ppc' # "idle") /\ ~(ppc = "reading" /\ ppc' = "idle")
            => current_pos_input' = current_pos_input]_vars

\* A packet was written with no reply expected after a word was received.
C24_Witness ==
    /\ ppc = "written"
    /\ bytes_to_read = 0
    /\ current_pos_input = ReplySize
    /\ Len(wire) > 4

\* C25: a flush that expects a reply of n > 0 bytes asks the transport in
\* each serial_read for no more than the bytes still missing, returns only
\* when exactly n bytes have arrived, and leaves n as the inbound count,
\* however the reply is split, reads of 0 bytes included.
C25_ExactReply ==
    /\ [][io'[1] = "serial_read"
            => /\ io'[2] > 0
               /\ io'[2] <= bytes_to_read - bytes_in_buffer
               /\ io'[3] \in 0..io'[2]
               /\ bytes_in_buffer' = bytes_in_buffer + io'[3]
               /\ ppc' = "reading"]_vars
    /\ [][ppc = "reading" /\ ppc' = "idle"
            => /\ bytes_to_read > 0
               /\ bytes_in_buffer = bytes_to_read
               /\ bytes_in_buffer' = bytes_to_read
               /\ Len(input') = bytes_to_read]_vars
    /\ [](ppc = "reading" => /\ bytes_in_buffer <= bytes_to_read
                             /\ Len(input) = bytes_in_buffer)

\* A read timed out with no byte after a part of the reply had arrived.
C25_Witness ==
    /\ ppc = "reading"
    /\ io = <<"serial_read", 5, 0>>
    /\ bytes_in_buffer = 3
    /\ bytes_to_read = ReplySize

\* The whole reply to COMMAND_GET_INFO has arrived in three reads or more.
C25_WitnessInfo ==
    /\ ppc = "reading"
    /\ io = <<"serial_read", 1, 1>>
    /\ bytes_in_buffer = GET_INFO_REPLY

\* C26: whatever the results of serial_write, the bytes the transport has
\* accepted are the first position bytes of the framed packet, each once and
\* in order; a negative result hands over nothing and leaves the position;
\* the loop ends exactly when the whole packet has been accepted.
C26_WriteLoop ==
    /\ [](ppc \in {"writing", "written"} => wire = SubSeq(output, 1, position))
    /\ [](ppc = "writing" => /\ bytes_to_write > 0
                             /\ position + bytes_to_write = Len(output))
    /\ [][io'[1] = "serial_write" /\ io'[3] < 0
            => /\ wire' = wire
               /\ position' = position
               /\ bytes_to_write' = bytes_to_write
               /\ ppc' = "writing"]_vars
    /\ [][ppc = "writing"
            => /\ (ppc' = "written") = (position' = Len(output))
               /\ (ppc' = "written") = (wire' = output)
               /\ ppc' \in {"writing", "written"}]_vars

\* A write failed after a part of the packet had been accepted.
C26_Witness ==
    /\ ppc = "writing"
    /\ position = 2
    /\ io = <<"serial_write", Len(output) - 2, -1>>

\* A packet was accepted whole after a failed write.
C26_WitnessDone ==
    /\ ppc = "written"
    /\ position = MaxPayload + 4
    /\ wire = output
    /\ io[3] = 1

\* The step in which neofoxx_recv copies its word and returns.
RecvReturns == cont = << <<"recv">> >> /\ cont' = <<>>

\* C28 as claimed: the read cursor is at most the inbound byte count in every
\* state, and neofoxx_recv, after its flush, has cursor + 8 within the count.
C28_CursorAlways ==
    /\ [](current_pos_input <= bytes_in_buffer)
    /\ [][RecvReturns => current_pos_input + ReplySize <= bytes_in_buffer]_vars

\* C28: whenever neofoxx_flush_output is not in its reply loop the read
\* cursor is at most the inbound byte count; and neofoxx_recv, after its
\* flush, finds the cursor at 0 and 8 bytes or more in the buffer, all of them
\* received by that flush, and returns the first 8.
C28_CursorInBuffer ==
    /\ [](ppc # "reading" => current_pos_input <= bytes_in_buffer)
    /\ [][RecvReturns => /\ current_pos_input = 0
                         /\ current_pos_input + ReplySize <= bytes_in_buffer
                         /\ Len(input) = bytes_in_buffer
                         /\ input \in ReplyFrom(op)
                         /\ current_pos_input' <= bytes_in_buffer']_vars

\* A second word is being received: the count was restarted and the cursor
\* still is where the first neofoxx_recv left it.
C28_Witness ==
    /\ ppc = "reading"
    /\ cont = << <<"recv">> >>
    /\ current_pos_input = ReplySize
    /\ bytes_in_buffer = 1

\* neofoxx_recv has returned its word.
C28_WitnessRecv ==
    /\ ppc = "idle"
    /\ op = "xferData"
    /\ cont = <<>>
    /\ current_pos_input = ReplySize
    /\ bytes_in_buffer = ReplySize
    /\ ret # <<>>

\* Byte k, from 1, of a 64-bit word given as its four 16-bit parts.
ByteOf(word, k) == (word[(k + 1) \div 2] \div (IF k % 2 = 1 THEN 1 ELSE 256)) % 256

\* C30 as claimed: the value neofoxx_xferData returns with readFlag has no
\* bit set at position nBits or above, for nBits = 8 and for nBits = 32.
C30_LowBitsOnly ==
    op = "xferData" /\ cont = <<>>
      => \A k \in 1..ReplySize : 8 * (k - 1) >= args[1] => ByteOf(ret, k) = 0

\* C30: neofoxx_xferData with readFlag flushes and returns the 64-bit word
\* made of the 8 bytes of the reply, the first byte least significant,
\* whatever nBits is; no bit of the reply is cleared.
C30_ReturnsReply ==
    op = "xferData" /\ cont = <<>>
      => /\ input \in Replies
         /\ Len(ret) = 4
         /\ \A k \in 1..ReplySize : ByteOf(ret, k) = input[k]

\* An 8-bit transfer has returned a word with every byte set.
C30_Witness ==
    /\ op = "xferData"
    /\ cont = <<>>
    /\ args = <<8>>
    /\ input = <<1, 2, 3, 4, 5, 6, 7, 8>>
    /\ ret = <<513, 1027, 1541, 2055>>

\* The packets among the events ev.
SentIn(ev) == SelectSeq(ev, LAMBDA e : e[1] = "pkt")

\* C29: neofoxx_sendCommand with a code that is none of the ten it knows
\* prints its diagnostic and exits with nothing queued and nothing sent; with
\* one of the ten it queues one SEND of 4 TMS prolog bits 0b0011, 5 TDI bits
\* holding the code, 2 TMS epilog bits 0b01 and no read flag, and nothing
\* else; the packet goes out at once when immediate is set.
C29_SendCommand ==
    op = "sendCommand"
      => LET command   == args[1]
             immediate == args[2]
             before    == args[3]
             after     == ret[1]
             known     == {"MTAP_COMMAND", "TAP_SW_MTAP", "TAP_SW_ETAP",
                           "MTAP_IDCODE", "ETAP_ADDRESS", "ETAP_DATA",
                           "ETAP_CONTROL", "ETAP_EJTAGBOOT", "ETAP_FASTDATA",
                           "ETAP_NORMALBOOT"}
             queued    == Append(before.queue,
                                 <<"SEND", 4, 3, 5, <<"sym", command>>, 2, 1, 0>>)
         IN  IF command \notin known
               THEN /\ after.fatal
                    /\ after.queue = before.queue
                    /\ after.btw = before.btw
                    /\ SentIn(after.ev) = <<>>
               ELSE /\ ~after.fatal
                    /\ after.btr = before.btr
                    /\ IF immediate = 0
                         THEN /\ after.queue = queued
                              /\ after.ev = <<>>
                         ELSE /\ after.queue = <<>>
                              /\ after.ev = << <<"pkt", queued>> >>

C29_Witness ==
    /\ op = "sendCommand"
    /\ args[1] = "MCHP_ERASE"
    /\ args[3].queue # <<>>
    /\ ret[1].fatal

C29_WitnessKnown ==
    /\ op = "sendCommand"
    /\ args[1] = "ETAP_NORMALBOOT"
    /\ args[2] = 0
    /\ Len(ret[1].queue) = 2

-----------------------------------------------------------------------------
(*                  PROPERTIES OF THE FASTDATA TRANSFER                     *)

\* (unsigned long long) word << 1 as its high 17 and low 16 bits.
FastValue(w) == <<w[1] * 2 + w[2] \div 32768, (w[2] * 2) % 65536>>

\* C31: neofoxx_xferFastData_PC_slow sends one SEND of 33 TDI bits holding
\* the word shifted left by one, bit 0 clear, with the read flag whatever
\* readFlag is; one reply of 8 bytes is asked for and consumed; the reply is
\* returned with readFlag and 0 without; with PrACC clear in the reply the
\* warning is printed and the operation goes on with its next statement.
C31_FastData ==
    [][At("xferFastData")
         => LET word     == Head(cont)[2]
                readFlag == Head(cont)[3]
                sent     == Pkts(emit')
                cmds     == sent[1][2]
                fast     == cmds[Len(cmds)]
                value    == FastValue(<<fast[5][2], fast[5][3]>>)
                warned   == HasLog(emit', "Warning: PrACC not set in xferFastData")
            IN  /\ Len(sent) = 1
                /\ cmds = queue \o << fast >>
                /\ fast = <<"SEND", 3, 1, 33, <<"shl1", word[1], word[2]>>, 2, 1, 1>>
                /\ value[2] % 2 = 0
                /\ value[1] \div 2 = word[1]
                /\ (value[1] % 2) * 32768 + value[2] \div 2 = word[2]
                /\ reply_len' = << bytes_to_read + ReplySize >>
                /\ bytes_to_read' = 0
                /\ bytes_in_buffer' = bytes_to_read + ReplySize
                /\ current_pos_input' = ReplySize
                /\ queue' = <<>>
                /\ ~exited'
                /\ cont' = Tail(cont)
                /\ IF readFlag # 0
                     THEN /\ ret' \in FastReplies
                          /\ warned = (ret'[1] = 0)
                     ELSE ret' = <<0, <<0, 0>>>>]_vars

\* A transfer without readFlag whose reply had PrACC clear: the warning, the
\* return of 0, and the operation goes on.
C31_Witness ==
    /\ op = "program_word"
    /\ Running
    /\ HasLog(emit, "Warning: PrACC not set in xferFastData")
    /\ Len(Pkts(emit)) = 1
    /\ reply_len = << ReplySize >>
    /\ current_pos_input = ReplySize
    /\ ret = <<0, <<0, 0>>>>

\* read_word has received its word over FASTDATA.
C31_WitnessRead ==
    /\ op = "read_word"
    /\ ~exited
    /\ reply_len = << ReplySize >>
    /\ IsFast(Pkts(emit)[1][2][1])
    /\ ret = <<1, <<57005, 48879>>>>

-----------------------------------------------------------------------------
(*                      PROPERTIES OF neofoxx_setMode                       *)

\* Bit i, from 1, of the 32 bits of the word w, the most significant first.
MsbFirst(w, i) ==
    IF i <= 16 THEN (w[1] \div 2 ^ (16 - i)) % 2 ELSE (w[2] \div 2 ^ (32 - i)) % 2

\* Bit i, from 1, of the TMS bits of the SENDs cmds of 8 prolog bits each, in
\* the order they leave the adapter: of each byte the least significant first.
TmsSent(cmds, i) == (cmds[(i - 1) \div 8 + 1][3] \div 2 ^ ((i - 1) % 8)) % 2

\* C32: neofoxx_setMode(SET_MODE_ICSP_SYNC) in the JTAG or the default
\* interface queues four SENDs of 8 TMS prolog bits, no TDI bits, no epilog
\* bits and no read flag, whose TMS bits in the order sent are the 32 bits of
\* 0x4D434850, the most significant first; in the ICSP interface, and with a
\* mode it does not know in any interface, it prints its diagnostic and exits
\* with nothing queued and nothing sent.
C32_IcspSync ==
    op = "setMode_any" /\ args[1] \in {"SET_MODE_ICSP_SYNC", "SET_MODE_UNKNOWN"}
      => LET immediate == args[2]
             before    == args[3]
             after     == ret[1]
             all       == IF immediate = 0 THEN after.queue
                          ELSE SentIn(after.ev)[1][2]
             key       == SubSeq(all, Len(before.queue) + 1, Len(all))
         IN  IF /\ args[1] = "SET_MODE_ICSP_SYNC"
                /\ interface \in {"INTERFACE_JTAG", "INTERFACE_DEFAULT"}
               THEN /\ ~after.fatal
                    /\ after.btr = 0
                    /\ IF immediate = 0 THEN after.ev = <<>>
                       ELSE after.queue = <<>> /\ Len(after.ev) = 1
                    /\ SubSeq(all, 1, Len(before.queue)) = before.queue
                    /\ Len(key) = 4
                    /\ \A k \in 1..4 :
                          /\ key[k][1] = "SEND"
                          /\ key[k][2] = 8
                          /\ key[k][3] \in 0..255
                          /\ key[k][4] = 0
                          /\ key[k][6] = 0
                          /\ key[k][8] = 0
                    /\ \A i \in 1..32 : TmsSent(key, i) = MsbFirst(<<19779, 18512>>, i)
               ELSE /\ after.fatal
                    /\ after.queue = before.queue
                    /\ after.btw = before.btw
                    /\ SentIn(after.ev) = <<>>

C32_Witness ==
    /\ op = "setMode_any"
    /\ args[1] = "SET_MODE_ICSP_SYNC"
    /\ args[2] = 1
    /\ interface = "INTERFACE_JTAG"
    /\ args[3].queue # <<>>
    /\ Len(SentIn(ret[1].ev)[1][2]) = 5

C32_WitnessIcsp ==
    /\ op = "setMode_any"
    /\ args[1] = "SET_MODE_ICSP_SYNC"
    /\ interface = "INTERFACE_ICSP"
    /\ ret[1].fatal

C32_WitnessUnknown ==
    /\ op = "setMode_any"
    /\ args[1] = "SET_MODE_UNKNOWN"
    /\ interface = "INTERFACE_DEFAULT"
    /\ ret[1].fatal

-----------------------------------------------------------------------------
(*                    PROPERTIES OF THE PACKETS' REPLIES                    *)

\* The positions in cmds of the commands the adapter answers.
Answered(cmds) == {k \in 1..Len(cmds) : ReplyOf(cmds[k]) > 0}

\* A FASTDATA transfer of neofoxx_xferFastData_PC_slow: sent with the read
\* flag.
IsSlowFast(c) == IsFast(c) /\ c[8] = 1

\* C33: no packet handed to the transport carries more than one command the
\* adapter answers, and the reply length expected at every flush is 0, 8 or
\* 128; every FASTDATA transfer of neofoxx_xferFastData_PC_slow is the only
\* command of its packet, and when the call is over its reply has been
\* consumed and nothing has been queued after it.
C33_OneReplyPerPacket ==
    /\ Len(reply_len) = Len(Pkts(emit))
    /\ \A i \in 1..Len(reply_len) :
          LET cmds == Pkts(emit)[i][2]
          IN  /\ Cardinality(Answered(cmds)) <= 1
              /\ reply_len[i] \in {0, ReplySize, GET_INFO_REPLY}
              /\ (\E k \in 1..Len(cmds) : IsSlowFast(cmds[k]))
                    => /\ Len(cmds) = 1
                       /\ i = Len(reply_len)
                       /\ queue = <<>>
                       /\ bytes_to_write = 0
                       /\ bytes_to_read = 0
                       /\ bytes_in_buffer = ReplySize
                       /\ current_pos_input = bytes_in_buffer

C33_Witness ==
    /\ op = "program_row"
    /\ way = "WAY_OLD"
    /\ Len(Pkts(emit)) = 1
    /\ IsSlowFast(Pkts(emit)[1][2][1])
    /\ Len(cont) > 0
    /\ Head(cont)[1] = "xferFastData"

C33_WitnessRead ==
    /\ Len(Pkts(emit)) = 1
    /\ Len(Pkts(emit)[1][2]) = 2
    /\ reply_len = <<ReplySize>>

C33_WitnessInfo ==
    /\ reply_len = <<GET_INFO_REPLY>>
    /\ Len(Pkts(emit)[1][2]) = 1

-----------------------------------------------------------------------------
(*                   PROPERTIES OF neofoxx_read_data                        *)

\* C34: neofoxx_read_data with the PE loaded never stores more than nwords
\* words through its data pointer, and has stored exactly nwords when it
\* returns, also when nwords is not a multiple of 32.
C34_StoresExactly ==
    op = "read_data" /\ use_executive # 0 /\ ~exited
      => /\ words_out <= args[2]
         /\ At("return") => words_out = args[2]

-----------------------------------------------------------------------------
(*                    PROPERTIES OF get_pe_response                         *)

\* Where the process is in its program, and the counters of its loops.
progress == <<cont, exited, counter, counterPre, maxCounter, polls>>

-----------------------------------------------------------------------------
(*                     PROPERTIES OF THE TAP IN USE                         *)

\* erase_chip among read_word, load_executive and program_word on an open
\* session, in any order.
NextErased ==
    \/ Call_erase_chip
    \/ neofoxx_erase_chip
    \/ erase_poll
    \/ Call_read_word
    \/ Call_load_executive
    \/ Call_program_word
    \/ Step
    \/ SetUseExecutive
    \/ neofoxx_xferFastData_PC_slow
    \/ neofoxx_xferInstruction_PC_slow
    \/ xi_poll
    \/ get_pe_response
    \/ pe_poll
    \/ check_response
    \/ neofoxx_read_word
    \/ serial_execution
    \/ se_status
    \/ se_attempt
    \/ se_poll
    \/ se_after
    \/ se_loop
    \/ se_return
    \/ Return

SpecErased == Init /\ [][NextErased]_vars

\* Every instruction of cmds is sent to the TAP that the last switch, of
\* cmds or before them as t has it, has put in use.
RECURSIVE TapMatches(_, _)
TapMatches(t, cmds) ==
    IF cmds = <<>> THEN TRUE
    ELSE /\ IsSelectOf(Head(cmds), EtapCommands) => t.tap = "TAP_SW_ETAP"
         /\ IsSelectOf(Head(cmds), {"MTAP_COMMAND", "MTAP_IDCODE"})
               => t.tap = "TAP_SW_MTAP"
         /\ TapMatches(DrivenBy(t, Head(cmds)), Tail(cmds))

\* C36: in every sequence of operations on an open session, every ETAP
\* instruction is sent while the last TAP switch sent was TAP_SW_ETAP, and
\* MTAP_COMMAND and MTAP_IDCODE while it was TAP_SW_MTAP, also in read_word
\* and the PE operations that follow erase_chip once serial execution has
\* been entered.
C36_TapMatches == TapMatches(target, CmdsOf(emit))

-----------------------------------------------------------------------------
(*               PROPERTIES OF THE INSTRUCTION SELECTED                     *)

\* The instruction that the data-register transfer c is meant for; "none"
\* for a command that shifts no data register.
RegisterOf(c) ==
    IF ~IsSend(c) \/ IsSelect(c) \/ c[4] = 0 THEN "none"
    ELSE IF c[5][1] = "sym" THEN "MTAP_COMMAND"
    ELSE IF c[5][1] = "ctl" THEN "ETAP_CONTROL"
    ELSE IF c[5][1] = "shl1" THEN "ETAP_FASTDATA"
    ELSE "ETAP_DATA"

\* Every data-register transfer of cmds is made with its instruction as the
\* one selected last, in cmds or before them as t has it.
RECURSIVE IrMatches(_, _)
IrMatches(t, cmds) ==
    IF cmds = <<>> THEN TRUE
    ELSE /\ RegisterOf(Head(cmds)) # "none" => t.ir = RegisterOf(Head(cmds))
         /\ IrMatches(DrivenBy(t, Head(cmds)), Tail(cmds))

\* C37: every data-register transfer is made while the matching instruction
\* is the one selected last, with no other selection and no TAP reset in
\* between: the 8-bit MCHP_* transfers with MTAP_COMMAND, the control polls
\* and resume writes with ETAP_CONTROL, instruction writes and PE response
\* reads with ETAP_DATA, FASTDATA transfers with ETAP_FASTDATA; in every
\* outer attempt of serial_execution, the retries in the ICSP interface
\* included.
C37_IrMatches == IrMatches(target, CmdsOf(emit))

\* The same outside the retries of serial_execution in the ICSP interface.
IrMatchesFirstAttempts ==
    ~(interface = "INTERFACE_ICSP" /\ se_result = "running" /\ attempts > 1)
       => IrMatches(target, CmdsOf(emit))

-----------------------------------------------------------------------------
(*                      PROPERTIES OF THE MCLR PIN                          *)

\* The operations that drive MCLR: adapter_open, close, erase_chip, and
\* serial_execution as read_word enters it, on every kind of session.
NextPins ==
    \/ NextLife
    \/ Call_erase_chip
    \/ neofoxx_erase_chip
    \/ erase_poll
    \/ Call_read_word
    \/ neofoxx_read_word
    \/ serial_execution
    \/ se_status
    \/ se_attempt
    \/ se_poll
    \/ se_after
    \/ se_loop
    \/ se_return
    \/ neofoxx_xferInstruction_PC_slow
    \/ xi_poll
    \/ neofoxx_xferFastData_PC_slow

SpecPins == InitSession /\ [][NextPins]_vars

\* The state of MCLR that was commanded last, the last step included.
MclrNow == Driven(target, CmdsOf(emit)).mclr

\* C38: whenever a public operation has returned and whenever the process
\* has ended on a fatal error, the state commanded last for MCLR is output
\* high, or MCLR was never driven: adapter_open, serial_execution with its
\* recovery and its exits, erase_chip and close leave the target out of
\* reset.
C38_McLrReleased ==
    (op = "none" \/ exited \/ session = "released")
       => MclrNow \in {"PIN_SET_OUTPUT_HIGH", "none"}

\* serial_execution has given up with JTAG on a family without recovery,
\* after its MCLR pulse.
C38_Witness ==
    /\ exited
    /\ op = "read_word"
    /\ HasLog(emit, "In JTAG mode, only recovery is through a power-cycle, or reset via ICSP. Quitting.")
    /\ target.mclr = "PIN_SET_OUTPUT_HIGH"
    /\ target.ir = "ETAP_CONTROL"

\* close has returned.
C38_WitnessClose ==
    /\ op = "none"
    /\ session = "released"
    /\ closes = 1
    /\ target.tap = "TAP_SW_ETAP"
    /\ target.mclr = "PIN_SET_OUTPUT_HIGH"

\* adapter_open has failed before MCLR was driven.
C38_WitnessNever ==
    /\ op = "none"
    /\ session = "released"
    /\ target.mclr = "none"

\* MCLR is low while an operation runs.
C38_WitnessLow == MclrNow = "PIN_SET_OUTPUT_LOW"

-----------------------------------------------------------------------------
(*                  PROPERTIES OF THE OUTBOUND BUFFER                       *)

\* uint8_t output [2048]
OUTPUT_SIZE == 2048

\* The bytes a command takes in the packet: for a SEND the command byte and
\* the seven arguments in the width of their types, the 64-bit tdi among
\* 32-bit ones.
EncodedBytes(c) ==
    IF IsSend(c) THEN 1 + 4 + 4 + 4 + 8 + 4 + 4 + 4
    ELSE IF c[1] = "PIN" THEN PIN_BYTES
    ELSE IF c[1] = "PROG_MODE" THEN PROG_MODE_BYTES
    ELSE GET_INFO_BYTES

RECURSIVE EncodedSum(_)
EncodedSum(cmds) ==
    IF cmds = <<>> THEN 0 ELSE EncodedBytes(Head(cmds)) + EncodedSum(Tail(cmds))

\* The bytes of a packet with the commands cmds before its checksum: the
\* packet byte and the two length bytes, then the commands.
PendingBytes(cmds) == IF cmds = <<>> THEN 0 ELSE 3 + EncodedSum(cmds)

\* The most commands a packet gets: the words program_row queues in the new
\* way between two flushes.
FLUSH_EVERY == 4

\* C39: in every state, in the old and in the new way, the bytes pending in
\* the outbound buffer, with the byte of the checksum, fit in its 2048
\* bytes, and so did every packet that was sent: whatever the length of a
\* row, no more than four commands are queued between two flushes; every
\* SEND takes exactly 33 bytes of the buffer and has a TDI bit count of at
\* most 64.
C39_OutputFits ==
    /\ bytes_to_write = PendingBytes(queue)
    /\ bytes_to_write + 1 <= OUTPUT_SIZE
    /\ Len(queue) <= FLUSH_EVERY
    /\ \A i \in 1..Len(queue) :
          IsSend(queue[i]) => EncodedBytes(queue[i]) = 33 /\ queue[i][4] <= 64
    /\ \A i \in 1..Len(Pkts(emit)) :
          LET cmds == Pkts(emit)[i][2]
          IN  /\ PendingBytes(cmds) + 1 <= OUTPUT_SIZE
              /\ Len(cmds) <= FLUSH_EVERY
              /\ \A k \in 1..Len(cmds) : IsSend(cmds[k]) => cmds[k][4] <= 64

\* program_row in the new way has sent a packet of four FASTDATA words.
C39_Witness ==
    /\ op = "program_row"
    /\ way = "WAY_NEW"
    /\ \E i \in 1..Len(Pkts(emit)) :
          /\ Len(Pkts(emit)[i][2]) = 4
          /\ PendingBytes(Pkts(emit)[i][2]) = 3 + 4 * 33

\* Commands are pending when a step is over.
C39_WitnessPending ==
    /\ bytes_to_write = 3 + 33
    /\ Len(queue) = 1

====
